---- MODULE Spec2Model ----
(***************************************************************************)
(* Resilience core of phoenixvc/azure-infrastructure.                      *)
(*                                                                         *)
(*   src/src/api/app/resilience/circuit_breaker.py   CircuitBreaker        *)
(*   src/src/api/app/resilience/retry.py             create_retry_decorator*)
(*                                                   RetryBudget           *)
(*   src/src/api/app/resilience/timeout.py           with_timeout,         *)
(*                                                   run_with_timeout,     *)
(*                                                   AdaptiveTimeout       *)
(*   src/src/api/app/storage/memory.py               InMemoryStorage       *)
(*   src/src/api/app/messaging/memory.py             InMemoryMessageBroker *)
(*                                                                         *)
(* CircuitBreaker is a wrapper around pybreaker.CircuitBreaker and the     *)
(* retry decorator a wrapper around tenacity.retry.  Both libraries are    *)
(* imported, not part of the repository; the operators that stand for them *)
(* follow the libraries' behaviour and are marked "library".  The timeout  *)
(* guards rest on asyncio.wait_for of the standard library.                *)
(***************************************************************************)
EXTENDS Integers, Sequences, FiniteSets, TLC

(***************************************************************************)
(* Bounds of the model.                                                    *)
(***************************************************************************)
\* CircuitBreaker(fail_max=...): failures before the circuit opens.
fail_max == 2
\* CircuitBreaker(reset_timeout=...): seconds before a trial is allowed.
reset_timeout == 2
\* The clock runs over 0..MaxTime.
MaxTime == 5

\* Threads / tasks that call through the same breaker.
Callers == {"t1", "t2"}
\* Failure kinds an operation can raise.
Kinds == {"ValueError", "KeyError"}
\* CircuitBreaker(exclude=...): kinds that do not count as failures.
exclude == {"KeyError"}
\* What one invocation of the protected operation does.
Outcomes == {"ok"} \cup Kinds

VARIABLES
    breaker,    \* pybreaker storage: [state, fail_counter, opened_at]
    lock,       \* pybreaker's RLock: "free" or the caller holding it
    now,        \* the clock (time.time() / datetime.utcnow())
    pc,         \* per caller: "idle", "in_call" (inside call's func) or
                \*   "awaiting" (call_async suspended at `await func`)
    trial,      \* per caller: the call in flight was admitted as the trial
    streak,     \* history: consecutive admitted calls that ended with a
                \*   counted failure (saturates at fail_max; -1: the run
                \*   did not start from a CLOSED breaker with count 0)
    ev          \* history: what the last step did and delivered; phase is
                \*   "rejected" (failed fast, operation not invoked),
                \*   "admitted" (operation invoked) or "completed"

cbvars == <<breaker, lock, now, pc, trial, streak, ev>>

VARIABLES
    config,          \* the RetryConfig of the decorator
    rpc,             \* "idle", "attempt", "sleeping" or "done"
    attempt_number,  \* tenacity's retry_state.attempt_number
    outcomes,        \* the outcome of every attempt made so far, in order
    slept,           \* the sleeps taken so far, in order
    result,          \* what the caller of the decorated operation received
    on_retry,        \* create_retry_decorator was given an on_retry callback
    on_retry_calls,  \* history: the calls of on_retry, in order, each
                     \*   <<attempt number, exception>>
    held,            \* the RetryConfig object a caller holds (NoConfig:
                     \*   none); delays in tenths of a second
    cev              \* history: the last operation on `held`

retryvars ==
    <<config, rpc, attempt_number, outcomes, slept, result, on_retry,
      on_retry_calls, held, cev>>

VARIABLES
    bcfg,        \* RetryBudget: budget_percent, window_seconds,
                 \*   min_retries_per_second
    _requests,   \* RetryBudget._requests: time stamps of the requests
    _retries,    \* RetryBudget._retries: time stamps of the retries
    bnow,        \* the clock the budget reads (time.time())
    bev          \* history: the last budget operation, the logs before it
                 \*   and what can_retry() returned

budgetvars == <<bcfg, _requests, _retries, bnow, bev>>

VARIABLES
    guard,       \* the fixed guard of the call: its timeout and its op_name
    operation,   \* the coroutine the guard runs
    gpc,         \* "idle", "waiting" (inside asyncio.wait_for),
                 \*   "cancelling" (wait_for cancelled the operation and
                 \*   waits for it to end) or "done"
    cancelled,   \* history: wait_for cancelled the operation
    received     \* what the caller of the guard received

guardvars == <<guard, operation, gpc, cancelled, received>>

VARIABLES
    acfg,              \* AdaptiveTimeout: the constructor's arguments
    _latencies,        \* AdaptiveTimeout._latencies
    _current_timeout,  \* AdaptiveTimeout._current_timeout
    apc,               \* the wrapped call: "idle" or "waiting"
    deadline,          \* the timeout handed to asyncio.wait_for
    aev                \* history: the last operation on the AdaptiveTimeout
                       \*   and what the caller of the wrapper got

adaptvars == <<acfg, _latencies, _current_timeout, apc, deadline, aev>>

VARIABLES
    _circuit_breakers,  \* the module's dict: name -> instance (0: no entry)
    instances,          \* the CircuitBreaker objects made so far, in order;
                        \*   an instance is its position in this sequence
    regpc,              \* per thread inside circuit_breaker(name): "idle",
                        \*   "create" (after line 259 found no entry) or
                        \*   "lookup" (before line 267)
    regname,            \* per thread: the name its call site uses
    cb                  \* per thread: the instance its call site holds
                        \*   (0: none)

regvars == <<_circuit_breakers, instances, regpc, regname, cb>>

VARIABLES
    _containers,  \* InMemoryStorage._containers: container -> blob -> bytes
    uploaded,     \* history: per container and blob, the bytes of the most
                  \*   recent upload since the blob or its container was
                  \*   last deleted ("absent": none)
    sev           \* history: the last storage operation and its result

storvars == <<_containers, uploaded, sev>>

VARIABLES
    via_call,        \* the storage of a breaker driven through call alone
    via_call_async,  \* the storage of an identically configured breaker
                     \*   driven through call_async alone
    pnow,            \* the clock both breakers read
    pev              \* history: the last call made on both breakers and
                     \*   what each path decided and delivered

pathvars == <<via_call, via_call_async, pnow, pev>>

VARIABLES
    qcfg,            \* InMemoryMessageBroker._queue_configs[queue]
    _queue,          \* _queues[queue]: the messages of the queue, in order
    _dead_letters,   \* _dead_letters[queue], in order
    _processing,     \* _processing[queue]: the ids of the locked messages
    delivery_count,  \* Message.delivery_count of every message
    sent,            \* history: the messages sent so far
    locked_at,       \* history: when each message was last received
    mnow,            \* the clock (datetime.utcnow())
    mev              \* history: the last broker operation, what it
                     \*   returned and which messages were locked before it

msgvars ==
    <<qcfg, _queue, _dead_letters, _processing, delivery_count, sent,
      locked_at, mnow, mev>>

vars ==
    <<cbvars, retryvars, budgetvars, guardvars, adaptvars, regvars, storvars,
      pathvars, msgvars>>

\* What the steps of one component leave alone.
notcb ==
    <<retryvars, budgetvars, guardvars, adaptvars, regvars, storvars,
      pathvars, msgvars>>
notretry ==
    <<cbvars, budgetvars, guardvars, adaptvars, regvars, storvars, pathvars,
      msgvars>>
notbudget ==
    <<cbvars, retryvars, guardvars, adaptvars, regvars, storvars, pathvars,
      msgvars>>
notguard ==
    <<cbvars, retryvars, budgetvars, adaptvars, regvars, storvars, pathvars,
      msgvars>>
notadapt ==
    <<cbvars, retryvars, budgetvars, guardvars, regvars, storvars, pathvars,
      msgvars>>
notreg ==
    <<cbvars, retryvars, budgetvars, guardvars, adaptvars, storvars, pathvars,
      msgvars>>
notstor ==
    <<cbvars, retryvars, budgetvars, guardvars, adaptvars, regvars, pathvars,
      msgvars>>
notpath ==
    <<cbvars, retryvars, budgetvars, guardvars, adaptvars, regvars, storvars,
      msgvars>>
notmsg ==
    <<cbvars, retryvars, budgetvars, guardvars, adaptvars, regvars, storvars,
      pathvars>>

(***************************************************************************)
(* The states of pybreaker (STATE_CLOSED, STATE_OPEN, STATE_HALF_OPEN),    *)
(* mapped one to one onto CircuitState by the `state` property.            *)
(***************************************************************************)
CLOSED == "closed"
OPEN == "open"
HALF_OPEN == "half_open"

\* opened_at is None (<<>>) until the circuit first opens, then <<t>>.
None == <<>>

NoEvent ==
    [op |-> "none", caller |-> "none", phase |-> "none", outcome |-> "none",
     raised |-> "none", remaining |-> 0, trial |-> FALSE,
     pre |-> [state |-> CLOSED, fail_counter |-> 0, opened_at |-> None],
     at |-> 0, value |-> <<>>]

(***************************************************************************)
(* library: the attributes of a pybreaker.CircuitBreaker object that the   *)
(* wrapper touches or could touch.  The opening time lives in the storage  *)
(* object (_state_storage.opened_at), the exclusion list is                *)
(* excluded_exceptions, and outcomes are recorded by the state objects     *)
(* inside call(): the breaker has no success(), failure(), exclude or      *)
(* _state_opened_at attribute.                                             *)
(***************************************************************************)
BreakerAttrs ==
    {"call", "open", "half_open", "close", "current_state", "state",
     "fail_counter", "fail_max", "reset_timeout", "excluded_exceptions",
     "is_system_error", "listeners", "name", "_state_storage", "_lock"}

hasattr(a) == a \in BreakerAttrs

\* library: CircuitBreaker.is_system_error, over the kinds given as exclude=
is_system_error(kind) == kind \notin exclude

\* library: storage.reset_counter()
reset_counter(b) == [b EXCEPT !.fail_counter = 0]

\* library: CircuitBreaker._inc_counter()
inc_counter(b) == [b EXCEPT !.fail_counter = @ + 1]

\* open() that refreshes nothing once an opening time is stored
open_keeps_time(b, t) ==
    [b EXCEPT !.state = OPEN, !.opened_at = IF @ = None THEN <<t>> ELSE @]

\* library: CircuitBreaker.open(): records the opening time, keeps the counter
open(b, t) == [b EXCEPT !.state = OPEN, !.opened_at = <<t>>]

\* library: CircuitBreaker.half_open()
half_open(b) == [b EXCEPT !.state = HALF_OPEN]

\* close() that leaves the counter alone
close_keeps_counter(b) == [b EXCEPT !.state = CLOSED]

\* library: CircuitBreaker.close(): entering the closed state resets the counter
close(b) == [b EXCEPT !.state = CLOSED, !.fail_counter = 0]

\* library: CircuitOpenState.before_call: the timer gate of the sync path
still_open(b, t) == b.opened_at # None /\ t < b.opened_at[1] + reset_timeout

\* _handle_success without the half-open state's on_success
handle_success_stays(b) == reset_counter(b)

\* library: CircuitBreakerState._handle_success: the counter is reset, and a
\* half-open breaker closes
handle_success(b) ==
    IF b.state = HALF_OPEN THEN close(reset_counter(b)) ELSE reset_counter(b)

\* library: CircuitBreakerState._handle_error.  A counted failure increments
\* the counter; the closed state opens at fail_max and the half-open state
\* opens at once, both raising pybreaker.CircuitBreakerError in place of the
\* operation's failure.  An excluded failure is handled as a success.
handle_error(b, kind, t) ==
    IF is_system_error(kind)
    THEN LET b1 == inc_counter(b) IN
         IF b.state = HALF_OPEN \/ b1.fail_counter >= fail_max
         THEN [b |-> open(b1, t), raised |-> "pybreaker.CircuitBreakerError"]
         ELSE [b |-> b1, raised |-> kind]
    ELSE [b |-> handle_success(b), raised |-> kind]

\* CircuitBreaker._get_remaining_timeout
_get_remaining_timeout(b, t) ==
    IF hasattr("_state_opened_at")
    THEN LET elapsed == t - b.opened_at[1] IN
         IF reset_timeout - elapsed > 0 THEN reset_timeout - elapsed ELSE 0
    ELSE reset_timeout

\* CircuitBreaker.call, lines 184-186: a pybreaker.CircuitBreakerError becomes
\* CircuitBreakerOpenError; everything else passes through
call_raised(raised) ==
    IF raised = "pybreaker.CircuitBreakerError"
    THEN "CircuitBreakerOpenError" ELSE raised

\* CircuitBreaker.call_async, lines 211-218: what the caller receives once the
\* awaited operation has finished with `outcome`
call_async_raised(outcome) ==
    IF outcome = "ok" /\ hasattr("success") THEN "none"
    ELSE IF ~hasattr("exclude") THEN "AttributeError"
    ELSE IF outcome # "ok" /\ outcome \in exclude THEN outcome
    ELSE IF ~hasattr("failure") THEN "AttributeError"
    ELSE IF outcome = "ok" THEN "AttributeError" ELSE outcome

\* a call_async whose success is recorded as the library's state objects
\* record one
async_recorded_as_success(b, outcome, t) ==
    IF outcome = "ok" THEN handle_success(b) ELSE b

\* CircuitBreaker.call_async, lines 211-218: what the steps after the awaited
\* operation leave of the breaker.  success() and failure() would record the
\* outcome; the statement that raises AttributeError ends the method.
async_recorded(b, outcome, t) ==
    IF outcome = "ok" /\ hasattr("success") THEN handle_success(b)
    ELSE IF ~hasattr("exclude") THEN b
    ELSE IF outcome # "ok" /\ outcome \in exclude THEN b
    ELSE IF ~hasattr("failure") THEN b
    ELSE handle_error(b, IF outcome = "ok" THEN "AttributeError" ELSE outcome,
                      t).b

\* history: the run of consecutive admitted calls that ended with a counted
\* failure, counted from a breaker that was CLOSED with fail_counter 0; -1
\* when the run did not start from such a breaker.  b2 is the breaker after
\* the step.
next_streak(s, outcome, b2) ==
    IF outcome \in Kinds /\ is_system_error(outcome)
    THEN (IF s >= 0 /\ s < fail_max THEN s + 1 ELSE s)
    ELSE IF b2.state = CLOSED /\ b2.fail_counter = 0 THEN 0 ELSE -1

InitCB ==
    /\ breaker = [state |-> CLOSED, fail_counter |-> 0, opened_at |-> None]
    /\ lock = "free"
    /\ now = 0
    /\ pc = [c \in Callers |-> "idle"]
    /\ trial = [c \in Callers |-> FALSE]
    /\ streak = 0
    /\ ev = NoEvent

(***************************************************************************)
(* CircuitBreaker.call up to the invocation of func: pybreaker takes the   *)
(* lock, an open breaker rejects until the timer has run out and then      *)
(* turns half-open and admits the call, every other state admits it.       *)
(***************************************************************************)
CallBegin(c) ==
    /\ pc[c] = "idle"
    /\ lock = "free"
    /\ IF breaker.state = OPEN /\ still_open(breaker, now)
       THEN /\ ev' = [NoEvent EXCEPT !.op = "call", !.caller = c,
                         !.phase = "rejected",
                         !.raised = call_raised("pybreaker.CircuitBreakerError"),
                         !.remaining = _get_remaining_timeout(breaker, now),
                         !.pre = breaker, !.at = now]
            /\ UNCHANGED <<breaker, lock, pc, trial>>
       ELSE /\ breaker' = IF breaker.state = OPEN THEN half_open(breaker)
                          ELSE breaker
            /\ trial' = [trial EXCEPT ![c] = (breaker.state = OPEN)]
            /\ lock' = c
            /\ pc' = [pc EXCEPT ![c] = "in_call"]
            /\ ev' = [NoEvent EXCEPT !.op = "call", !.caller = c,
                         !.phase = "admitted", !.trial = (breaker.state = OPEN),
                         !.pre = breaker, !.at = now]
    /\ UNCHANGED <<now, streak>>
    /\ UNCHANGED notcb

(***************************************************************************)
(* CircuitBreaker.call from the return of func on: the state object        *)
(* records the outcome, the lock is released, lines 184-186 translate the  *)
(* library's error.                                                        *)
(***************************************************************************)
CallEnd(c, outcome) ==
    /\ pc[c] = "in_call"
    /\ LET r == IF outcome = "ok"
                THEN [b |-> handle_success(breaker), raised |-> "none"]
                ELSE handle_error(breaker, outcome, now)
           raised == call_raised(r.raised)
       IN /\ breaker' = r.b
          /\ ev' = [NoEvent EXCEPT !.op = "call", !.caller = c,
                       !.phase = "completed", !.outcome = outcome,
                       !.raised = raised,
                       !.remaining =
                           IF raised = "CircuitBreakerOpenError"
                           THEN _get_remaining_timeout(r.b, now) ELSE 0,
                       !.trial = trial[c], !.pre = breaker, !.at = now]
    /\ lock' = "free"
    /\ pc' = [pc EXCEPT ![c] = "idle"]
    /\ trial' = [trial EXCEPT ![c] = FALSE]
    /\ streak' = next_streak(streak, outcome, breaker')
    /\ UNCHANGED now
    /\ UNCHANGED notcb

(***************************************************************************)
(* CircuitBreaker.call_async up to `await func`: only the stored state is  *)
(* looked at (line 207); neither the lock nor the timer is involved.       *)
(***************************************************************************)
CallAsyncBegin(c) ==
    /\ pc[c] = "idle"
    /\ IF breaker.state = OPEN
       THEN /\ ev' = [NoEvent EXCEPT !.op = "call_async", !.caller = c,
                         !.phase = "rejected",
                         !.raised = "CircuitBreakerOpenError",
                         !.remaining = _get_remaining_timeout(breaker, now),
                         !.pre = breaker, !.at = now]
            /\ UNCHANGED pc
       ELSE /\ pc' = [pc EXCEPT ![c] = "awaiting"]
            /\ ev' = [NoEvent EXCEPT !.op = "call_async", !.caller = c,
                         !.phase = "admitted", !.pre = breaker, !.at = now]
    /\ UNCHANGED <<breaker, lock, now, trial, streak>>
    /\ UNCHANGED notcb

(***************************************************************************)
(* CircuitBreaker.call_async after `await func`: lines 213-218.  The       *)
(* breaker is changed only by success() and failure(), which the library   *)
(* object does not have, so the storage is left as it was.                 *)
(***************************************************************************)
CallAsyncEnd(c, outcome) ==
    /\ pc[c] = "awaiting"
    /\ breaker' = async_recorded(breaker, outcome, now)
    /\ pc' = [pc EXCEPT ![c] = "idle"]
    /\ ev' = [NoEvent EXCEPT !.op = "call_async", !.caller = c,
                 !.phase = "completed", !.outcome = outcome,
                 !.raised = call_async_raised(outcome),
                 !.pre = breaker, !.at = now]
    /\ streak' = next_streak(streak, outcome, breaker')
    /\ UNCHANGED <<lock, now, trial>>
    /\ UNCHANGED notcb

\* CircuitBreaker.reset: pybreaker's close(), taken under the lock
reset ==
    /\ lock = "free"
    /\ breaker' = close(breaker)
    /\ streak' = 0
    /\ ev' = [NoEvent EXCEPT !.op = "reset", !.pre = breaker, !.at = now]
    /\ UNCHANGED <<lock, now, pc, trial>>
    /\ UNCHANGED notcb

\* The read-only properties of the wrapper.
Properties == {"state", "failure_count", "is_open"}

\* a read that lets an OPEN breaker whose timer has run out turn half-open
observed_refreshing(b, t) ==
    IF b.state = OPEN /\ ~still_open(b, t) THEN half_open(b) ELSE b

\* library: what reading current_state or fail_counter leaves of the
\* breaker: both return what the storage holds
observed(b, t) == b

\* CircuitBreaker.state / failure_count / is_open, lines 121-139
property_value(prop, b) ==
    CASE prop = "state" -> <<b.state>>
      [] prop = "failure_count" -> <<b.fail_counter>>
      [] OTHER -> <<b.state = OPEN>>

\* A property of the wrapper is read; no lock is taken.
Read(prop) ==
    /\ breaker' = observed(breaker, now)
    /\ ev' = [NoEvent EXCEPT !.op = prop, !.pre = breaker, !.at = now,
                 !.value = property_value(prop, breaker)]
    /\ UNCHANGED <<lock, now, pc, trial, streak>>
    /\ UNCHANGED notcb

\* The clock advances.
Tick ==
    /\ now < MaxTime
    /\ now' = now + 1
    /\ ev' = [NoEvent EXCEPT !.op = "tick", !.pre = breaker, !.at = now + 1]
    /\ UNCHANGED <<breaker, lock, pc, trial, streak>>
    /\ UNCHANGED notcb

NextCB ==
    \/ \E c \in Callers : CallBegin(c)
    \/ \E c \in Callers, o \in Outcomes : CallEnd(c, o)
    \/ \E c \in Callers : CallAsyncBegin(c)
    \/ \E c \in Callers, o \in Outcomes : CallAsyncEnd(c, o)
    \/ reset
    \/ \E prop \in Properties : Read(prop)
    \/ Tick

(***************************************************************************)
(* A dependency that recovers: the protected operation may fail before     *)
(* RecoveredAt and succeeds from then on.  The time is chosen so that a    *)
(* full reset_timeout fits between the last failure and the end of the     *)
(* clock.  Callers keep calling through call and call_async, operations    *)
(* in flight end, the clock advances, and nobody calls reset().            *)
(***************************************************************************)
RecoveredAt == MaxTime - reset_timeout

OutcomesAt(t) == IF t >= RecoveredAt THEN {"ok"} ELSE Outcomes

NextRecovered ==
    \/ \E c \in Callers : CallBegin(c)
    \/ \E c \in Callers, o \in OutcomesAt(now) : CallEnd(c, o)
    \/ \E c \in Callers : CallAsyncBegin(c)
    \/ \E c \in Callers, o \in OutcomesAt(now) : CallAsyncEnd(c, o)
    \/ Tick

FairRecovered ==
    /\ WF_vars(Tick)
    /\ WF_vars(\E c \in Callers : CallBegin(c) \/ CallAsyncBegin(c))
    /\ WF_vars(\E c \in Callers, o \in OutcomesAt(now) : CallEnd(c, o))
    /\ WF_vars(\E c \in Callers, o \in OutcomesAt(now) : CallAsyncEnd(c, o))


(***************************************************************************)
(* Events of the history variable.                                         *)
(***************************************************************************)
IsCall(e) == e.op \in {"call", "call_async"}
\* the call was issued in this step: it was rejected or admitted
Arrived(e) == IsCall(e) /\ e.phase \in {"rejected", "admitted"}
Rejected(e) == IsCall(e) /\ e.phase = "rejected"
Admitted(e) == IsCall(e) /\ e.phase = "admitted"
Completed(e) == IsCall(e) /\ e.phase = "completed"
CountedFailure(e) == e.outcome \in Kinds /\ is_system_error(e.outcome)
\* the breaker was OPEN and resetTimeout had not elapsed when the step began
InCooldown(e) ==
    /\ e.pre.state = OPEN
    /\ e.pre.opened_at # None
    /\ e.at - e.pre.opened_at[1] < reset_timeout
\* the breaker was OPEN and now - openedAt >= resetTimeout when the step began
CooldownOver(e) ==
    /\ e.pre.state = OPEN
    /\ e.pre.opened_at # None
    /\ e.at - e.pre.opened_at[1] >= reset_timeout

(***************************************************************************)
(* C1: starting from a CLOSED breaker with failure count 0, after          *)
(* failThreshold consecutive calls (call or call_async) whose operation    *)
(* fails with a non-excluded failure the breaker is OPEN, and every call   *)
(* issued before resetTimeout has elapsed fails with CircuitOpenError      *)
(* without invoking the operation.                                         *)
(***************************************************************************)
C1_OpensAfterThreshold ==
    /\ (Completed(ev) /\ CountedFailure(ev) /\ streak >= fail_max)
          => breaker.state = OPEN
    /\ (Arrived(ev) /\ InCooldown(ev))
          => (Rejected(ev) /\ ev.raised = "CircuitBreakerOpenError")

(***************************************************************************)
(* C2: on an OPEN breaker, a call (call or call_async) issued once         *)
(* now - openedAt >= resetTimeout is admitted as the trial: the operation  *)
(* is invoked instead of the call being rejected.                          *)
(***************************************************************************)
C2_TrialAdmittedAfterCooldown ==
    (Arrived(ev) /\ CooldownOver(ev)) => Admitted(ev)

(***************************************************************************)
(* C3: an admitted call whose operation fails with a non-excluded failure  *)
(* delivers the operation's own failure to the caller, also when that      *)
(* failure trips the breaker; CircuitOpenError is raised only for calls    *)
(* rejected without invoking the operation.                                *)
(***************************************************************************)
C3_OwnFailurePropagated ==
    /\ (Completed(ev) /\ CountedFailure(ev)) => ev.raised = ev.outcome
    /\ (IsCall(ev) /\ ev.raised = "CircuitBreakerOpenError") => Rejected(ev)

(***************************************************************************)
(* C4: a trial call that succeeds leaves the breaker CLOSED with failure   *)
(* count 0 and returns its result to the caller.                           *)
(***************************************************************************)
C4_TrialSuccessCloses ==
    (Completed(ev) /\ ev.trial /\ ev.outcome = "ok")
        => /\ breaker.state = CLOSED
           /\ breaker.fail_counter = 0
           /\ ev.raised = "none"

C4_Witness ==
    /\ Completed(ev) /\ ev.trial /\ ev.outcome = "ok"
    /\ ev.pre.state = HALF_OPEN
    /\ ev.pre.fail_counter >= fail_max

(***************************************************************************)
(* C5: a trial call that fails with a non-excluded failure puts the        *)
(* breaker back in OPEN with openedAt set to the time of that failure,     *)
(* whatever the failure count, and no trial is admitted before a full      *)
(* resetTimeout has elapsed since openedAt.                                *)
(***************************************************************************)
C5_TrialFailureReopens ==
    /\ (Completed(ev) /\ ev.trial /\ CountedFailure(ev))
          => /\ breaker.state = OPEN
             /\ breaker.opened_at = <<ev.at>>
    /\ (Admitted(ev) /\ ev.trial)
          => /\ ev.pre.opened_at # None
             /\ ev.at - ev.pre.opened_at[1] >= reset_timeout

C5_Witness ==
    /\ Completed(ev) /\ ev.trial /\ CountedFailure(ev)
    /\ ev.pre.opened_at # None
    /\ ev.pre.opened_at # <<ev.at>>

(***************************************************************************)
(* C6: at most one trial call is in flight, and while a trial is in flight *)
(* every other caller that arrives is rejected with CircuitOpenError and   *)
(* does not invoke the operation.                                          *)
(***************************************************************************)
C6_SingleTrialInFlight ==
    /\ Cardinality({c \in Callers : trial[c]}) <= 1
    /\ (Arrived(ev) /\ \E d \in Callers \ {ev.caller} : trial[d])
          => (Rejected(ev) /\ ev.raised = "CircuitBreakerOpenError")

(***************************************************************************)
(* C7: an admitted call whose operation fails with an excluded kind        *)
(* delivers that failure to the caller and leaves state, failure count and *)
(* openedAt as they were before the outcome was handled.                   *)
(***************************************************************************)
C7_ExcludedFailureIsNeutral ==
    (Completed(ev) /\ ev.outcome \in exclude)
        => /\ ev.raised = ev.outcome
           /\ breaker = ev.pre

(***************************************************************************)
(* C8: the CircuitOpenError of a rejected call carries                     *)
(* remainingCooldown = max(0, resetTimeout - (now - openedAt)).            *)
(***************************************************************************)
C8_RemainingCooldown ==
    (Rejected(ev) /\ ev.pre.opened_at # None)
        => LET left == reset_timeout - (ev.at - ev.pre.opened_at[1])
           IN  ev.remaining = IF left > 0 THEN left ELSE 0

(***************************************************************************)
(* C9: reset() leaves the breaker CLOSED with failure count 0 in whatever  *)
(* state it is called, and a call issued on a CLOSED breaker is admitted   *)
(* without regard to openedAt and resetTimeout.                            *)
(***************************************************************************)
C9_ResetCloses ==
    /\ ev.op = "reset"
          => (breaker.state = CLOSED /\ breaker.fail_counter = 0)
    /\ (Arrived(ev) /\ ev.pre.state = CLOSED) => Admitted(ev)

\* a call is admitted inside the cool-down of a breaker that reset() closed
C9_Witness ==
    /\ Admitted(ev)
    /\ ev.pre.state = CLOSED
    /\ ev.pre.fail_counter = 0
    /\ ev.pre.opened_at # None
    /\ ev.at - ev.pre.opened_at[1] < reset_timeout

(***************************************************************************)
(* Retry policy: create_retry_decorator builds a tenacity.retry decorator  *)
(* from a RetryConfig.  One call of a decorated operation is modelled: the *)
(* attempts, tenacity's decision after each of them, and the sleeps        *)
(* between them.  Delays are in whole seconds.                             *)
(***************************************************************************)
\* RetryConfig.max_attempts is drawn from 1..MaxAttempts.
MaxAttempts == 3
\* library: wait_exponential_jitter draws random.uniform(0, jitter) with the
\* default jitter of one second: 0..JitterSeconds in whole seconds.
JitterSeconds == 1

\* Failure kinds the retried operation raises; "Exception" is their base
\* class.  "TimeoutError" is the builtin the name means inside retry.py;
\* "timeout.TimeoutError" is the class of that name that timeout.py defines
\* (a subclass of Exception) and the timeout guards raise.
RetryKinds ==
    {"ConnectionError", "TimeoutError", "ValueError", "timeout.TimeoutError"}
RetryOutcomes == {"ok"} \cup RetryKinds

NoResult == [kind |-> "none", attempt |-> 0, failure |-> "none"]

\* RetryConfig.__post_init__: the two checks of the dataclass
valid_config(c) == c.max_attempts >= 1 /\ c.initial_delay_seconds > 0

\* The configurations a run starts from: every field of RetryConfig, as
\* retry_with_backoff and the presets fill them, accepted by __post_init__.
Configs ==
    {c \in [max_attempts : 0..MaxAttempts,
            max_delay_seconds : {1, 4},
            initial_delay_seconds : {0, 1, 2},
            exponential_base : {1, 2},
            jitter : BOOLEAN,
            retry_exceptions : {{"Exception"},
                                {"ConnectionError", "TimeoutError"}},
            exclude_exceptions : {{}, {"ConnectionError"}}] :
        valid_config(c)}

\* RETRY_CONFIGS, lines 55-84: max_attempts and the two delays, in tenths of
\* a second (the fields a preset sets or __post_init__ checks).
RETRY_CONFIGS ==
    [default      |-> [max_attempts |-> 3, max_delay_seconds |-> 600,
                       initial_delay_seconds |-> 10],
     aggressive   |-> [max_attempts |-> 5, max_delay_seconds |-> 1200,
                       initial_delay_seconds |-> 5],
     conservative |-> [max_attempts |-> 2, max_delay_seconds |-> 300,
                       initial_delay_seconds |-> 20],
     database     |-> [max_attempts |-> 3, max_delay_seconds |-> 50,
                       initial_delay_seconds |-> 1],
     http         |-> [max_attempts |-> 3, max_delay_seconds |-> 100,
                       initial_delay_seconds |-> 10],
     idempotent   |-> [max_attempts |-> 5, max_delay_seconds |-> 300,
                       initial_delay_seconds |-> 5]]

\* no RetryConfig object
NoConfig ==
    [max_attempts |-> -1, max_delay_seconds |-> -1,
     initial_delay_seconds |-> -1]

\* The values callers pass for, or assign to, the fields of a RetryConfig.
FieldValues ==
    [max_attempts |-> {0, 1, 3}, max_delay_seconds |-> {0, 600},
     initial_delay_seconds |-> {0, 10}]

RECURSIVE Pow(_, _)
Pow(b, e) == IF e = 0 THEN 1 ELSE b * Pow(b, e - 1)

Min(a, b) == IF a < b THEN a ELSE b
Max(a, b) == IF a > b THEN a ELSE b

\* isinstance(exc, types) over the kinds of the model
isinstance(kind, types) == kind \in types \/ "Exception" \in types

\* library: retry_if_exception_type(config.retry_exceptions), line 126: the
\* attempt failed and its exception is an instance of one of the types
retry_condition(c, outcome) ==
    outcome # "ok" /\ isinstance(outcome, c.retry_exceptions)

\* stop_after_attempt that allows one attempt too many
stop_after_one_more(c, n) == n > c.max_attempts

\* library: stop_after_attempt(config.max_attempts), line 137
stop_after_attempt(c, n) == n >= c.max_attempts

\* a wait that does not grow with the attempt number
wait_flat(c, n) == c.initial_delay_seconds

\* library: wait_exponential(multiplier, min, max, exp_base), lines 118-123
wait_exponential(c, n) ==
    Max(Max(0, c.initial_delay_seconds),
        Min(c.initial_delay_seconds * Pow(c.exponential_base, n - 1),
            c.max_delay_seconds))

\* library: wait_exponential_jitter(initial, max, exp_base), lines 112-116,
\* with the drawn jitter j
wait_exponential_jitter(c, n, j) ==
    Max(0, Min(c.initial_delay_seconds * Pow(c.exponential_base, n - 1) + j,
               c.max_delay_seconds))

\* lines 111-123: the wait strategy the config selects
wait_strategy(c, n, j) ==
    IF c.jitter THEN wait_exponential_jitter(c, n, j) ELSE wait_exponential(c, n)

\* retry(before_sleep=before_sleep_log(logger, logging.WARNING)), line 140:
\* before each sleep a line is logged; the list `callbacks` of lines
\* 129-134, which holds the on_retry callback, is handed to nothing
before_sleep(given, calls, n, exc) == calls

\* library: retry(..., reraise=True), line 142: once stopped, the exception of
\* the last attempt is raised as it is, not wrapped in tenacity.RetryError
reraise == TRUE

InitRetry ==
    /\ config \in Configs
    /\ rpc = "idle"
    /\ attempt_number = 0
    /\ outcomes = <<>>
    /\ slept = <<>>
    /\ result = NoResult
    /\ on_retry \in BOOLEAN
    /\ on_retry_calls = <<>>
    /\ held = NoConfig
    /\ cev = "none"

\* The decorated operation is called: tenacity starts with attempt 1.
RetryCall ==
    /\ rpc = "idle"
    /\ rpc' = "attempt"
    /\ attempt_number' = 1
    /\ UNCHANGED <<config, outcomes, slept, result, on_retry, on_retry_calls,
                   held, cev>>
    /\ UNCHANGED notretry

(***************************************************************************)
(* One attempt and tenacity's decision on it (Retrying.iter): return the   *)
(* result or raise a failure the retry condition does not match; stop      *)
(* after max_attempts and re-raise; otherwise compute the wait and sleep.  *)
(***************************************************************************)
RetryAttempt(o, j) ==
    /\ rpc = "attempt"
    /\ outcomes' = Append(outcomes, o)
    /\ IF ~retry_condition(config, o)
       THEN /\ rpc' = "done"
            /\ result' = IF o = "ok"
                         THEN [kind |-> "returned", attempt |-> attempt_number,
                               failure |-> "none"]
                         ELSE [kind |-> "raised", attempt |-> attempt_number,
                               failure |-> o]
            /\ UNCHANGED <<slept, on_retry_calls>>
       ELSE IF stop_after_attempt(config, attempt_number)
       THEN /\ rpc' = "done"
            /\ result' = IF reraise
                         THEN [kind |-> "raised", attempt |-> attempt_number,
                               failure |-> o]
                         ELSE [kind |-> "raised", attempt |-> attempt_number,
                               failure |-> "RetryError"]
            /\ UNCHANGED <<slept, on_retry_calls>>
       ELSE /\ rpc' = "sleeping"
            /\ on_retry_calls' =
                   before_sleep(on_retry, on_retry_calls, attempt_number, o)
            /\ slept' = Append(slept, wait_strategy(config, attempt_number, j))
            /\ UNCHANGED result
    /\ UNCHANGED <<config, attempt_number, on_retry, held, cev>>
    /\ UNCHANGED notretry

\* The sleep is over: retry_state.prepare_for_next_attempt()
RetryWake ==
    /\ rpc = "sleeping"
    /\ rpc' = "attempt"
    /\ attempt_number' = attempt_number + 1
    /\ UNCHANGED <<config, outcomes, slept, result, on_retry, on_retry_calls,
                   held, cev>>
    /\ UNCHANGED notretry

\* RetryConfig(max_attempts=..., ...): the dataclass __init__ sets the
\* fields and __post_init__ raises ValueError for a rejected pair; the
\* caller then has no new object.
RetryConfig ==
    /\ rpc = "idle"
    /\ \E c \in [max_attempts : FieldValues.max_attempts,
                 max_delay_seconds : FieldValues.max_delay_seconds,
                 initial_delay_seconds : FieldValues.initial_delay_seconds] :
          IF valid_config(c)
          THEN held' = c /\ cev' = "RetryConfig"
          ELSE held' = held /\ cev' = "ValueError"
    /\ UNCHANGED <<config, rpc, attempt_number, outcomes, slept, result,
                   on_retry, on_retry_calls>>
    /\ UNCHANGED notretry

\* RETRY_CONFIGS[name]: the caller takes a preset
preset ==
    /\ rpc = "idle"
    /\ \E name \in DOMAIN RETRY_CONFIGS : held' = RETRY_CONFIGS[name]
    /\ cev' = "preset"
    /\ UNCHANGED <<config, rpc, attempt_number, outcomes, slept, result,
                   on_retry, on_retry_calls>>
    /\ UNCHANGED notretry

\* held.<field> = value: RetryConfig is a plain @dataclass (line 32), so
\* the assignment stores the value and runs no check.
setattr ==
    /\ held # NoConfig
    /\ \E f \in DOMAIN FieldValues :
          \E v \in FieldValues[f] : held' = [held EXCEPT ![f] = v]
    /\ cev' = "setattr"
    /\ UNCHANGED <<config, rpc, attempt_number, outcomes, slept, result,
                   on_retry, on_retry_calls>>
    /\ UNCHANGED notretry

NextConfig ==
    \/ RetryConfig
    \/ preset
    \/ setattr

NextRetry ==
    \/ RetryCall
    \/ \E o \in RetryOutcomes, j \in 0..JitterSeconds : RetryAttempt(o, j)
    \/ RetryWake

(***************************************************************************)
(* RetryBudget: two logs of time stamps, pruned to the window on every     *)
(* access.  Times are whole seconds.                                       *)
(***************************************************************************)
\* The budget clock runs over 0..BudgetMaxTime.
BudgetMaxTime == 4
\* Each log holds at most MaxEvents time stamps (further records are not
\* taken).
MaxEvents == 3

\* RetryBudget(budget_percent, window_seconds, min_retries_per_second)
BudgetConfigs ==
    [budget_percent : {50},
     window_seconds : {2},
     min_retries_per_second : {0, 1}]

NoBudgetEvent ==
    [op |-> "none", returned |-> FALSE, requests |-> <<>>, retries |-> <<>>,
     at |-> 0]

\* the list comprehension [t for t in log if t > cutoff]
RECURSIVE Newer(_, _)
Newer(log, cutoff) ==
    IF log = <<>> THEN <<>>
    ELSE IF Head(log) > cutoff
         THEN <<Head(log)>> \o Newer(Tail(log), cutoff)
         ELSE Newer(Tail(log), cutoff)

\* a clean-up that keeps the time stamp on the edge of the window
_cleanup_inclusive(c, log, t) == Newer(log, t - c.window_seconds - 1)

\* RetryBudget._cleanup
_cleanup(c, log, t) == Newer(log, t - c.window_seconds)

\* can_retry that looks at the percentage before the floor
allowed_percent_first(c, requests, retries) ==
    IF requests = <<>> THEN TRUE
    ELSE Len(retries) * 100 < c.budget_percent * Len(requests)

\* RetryBudget.can_retry, lines 268-278, on the cleaned logs:
\*   len(retries) / window < min_rate     as  len(retries) < min_rate * window
\*   len(retries) / len(requests) * 100 < percent
\*                         as  len(retries) * 100 < percent * len(requests)
allowed(c, requests, retries) ==
    IF Len(retries) < c.min_retries_per_second * c.window_seconds THEN TRUE
    ELSE IF requests = <<>> THEN TRUE
    ELSE Len(retries) * 100 < c.budget_percent * Len(requests)

\* what can_retry() returns at time t
can_retry_at(c, requests, retries, t) ==
    allowed(c, _cleanup(c, requests, t), _cleanup(c, retries, t))

InitBudget ==
    /\ bcfg \in BudgetConfigs
    /\ _requests = <<>>
    /\ _retries = <<>>
    /\ bnow = 0
    /\ bev = NoBudgetEvent

\* RetryBudget.record_request
record_request ==
    /\ Len(_requests) < MaxEvents
    /\ _requests' = _cleanup(bcfg, Append(_requests, bnow), bnow)
    /\ _retries' = _cleanup(bcfg, _retries, bnow)
    /\ bev' = [NoBudgetEvent EXCEPT !.op = "record_request",
                  !.requests = _requests, !.retries = _retries, !.at = bnow]
    /\ UNCHANGED <<bcfg, bnow>>
    /\ UNCHANGED notbudget

\* RetryBudget.record_retry
record_retry ==
    /\ Len(_retries) < MaxEvents
    /\ _retries' = _cleanup(bcfg, Append(_retries, bnow), bnow)
    /\ _requests' = _cleanup(bcfg, _requests, bnow)
    /\ bev' = [NoBudgetEvent EXCEPT !.op = "record_retry",
                  !.requests = _requests, !.retries = _retries, !.at = bnow]
    /\ UNCHANGED <<bcfg, bnow>>
    /\ UNCHANGED notbudget

\* RetryBudget.can_retry
can_retry ==
    /\ _requests' = _cleanup(bcfg, _requests, bnow)
    /\ _retries' = _cleanup(bcfg, _retries, bnow)
    /\ bev' = [NoBudgetEvent EXCEPT !.op = "can_retry",
                  !.returned = can_retry_at(bcfg, _requests, _retries, bnow),
                  !.requests = _requests, !.retries = _retries, !.at = bnow]
    /\ UNCHANGED <<bcfg, bnow>>
    /\ UNCHANGED notbudget

\* A caller that records a retry only after can_retry() returned true.
retry_if_allowed ==
    /\ can_retry_at(bcfg, _requests, _retries, bnow)
    /\ Len(_cleanup(bcfg, _retries, bnow)) < MaxEvents
    /\ _retries' = _cleanup(bcfg, Append(_cleanup(bcfg, _retries, bnow), bnow),
                            bnow)
    /\ _requests' = _cleanup(bcfg, _requests, bnow)
    /\ bev' = [NoBudgetEvent EXCEPT !.op = "retry_if_allowed",
                  !.returned = TRUE,
                  !.requests = _requests, !.retries = _retries, !.at = bnow]
    /\ UNCHANGED <<bcfg, bnow>>
    /\ UNCHANGED notbudget

\* The budget clock advances.
BudgetTick ==
    /\ bnow < BudgetMaxTime
    /\ bnow' = bnow + 1
    /\ bev' = [NoBudgetEvent EXCEPT !.op = "tick", !.requests = _requests,
                  !.retries = _retries, !.at = bnow + 1]
    /\ UNCHANGED <<bcfg, _requests, _retries>>
    /\ UNCHANGED notbudget

\* A budget nobody uses.
BudgetIdle ==
    /\ bcfg = [budget_percent |-> 50, window_seconds |-> 2,
               min_retries_per_second |-> 1]
    /\ _requests = <<>>
    /\ _retries = <<>>
    /\ bnow = 0
    /\ bev = NoBudgetEvent

\* The budget as other callers can have left it when a retried call starts:
\* fresh, or with one request and two retries inside the window.
BudgetBeside ==
    /\ bcfg = [budget_percent |-> 50, window_seconds |-> 2,
               min_retries_per_second |-> 1]
    /\ \/ _requests = <<>> /\ _retries = <<>>
       \/ _requests = <<0>> /\ _retries = <<0, 0>>
    /\ bnow = 0
    /\ bev = NoBudgetEvent

NextBudget ==
    \/ record_request
    \/ record_retry
    \/ can_retry
    \/ BudgetTick

NextDisciplined ==
    \/ record_request
    \/ retry_if_allowed
    \/ can_retry
    \/ BudgetTick

(***************************************************************************)
(* Fixed timeout guards: with_timeout and run_with_timeout.  Both hand the *)
(* coroutine to asyncio.wait_for and turn asyncio.TimeoutError into the    *)
(* module's own TimeoutError(operation, timeout_seconds).  Times are whole *)
(* seconds; an optional argument is <<>> (None) or <<value>>.              *)
(***************************************************************************)
\* TIMEOUT_CONFIGS, the default_timeout of each preset (the one field the
\* guards read).
TIMEOUT_CONFIGS ==
    [default      |-> [default_timeout |-> 30],
     fast         |-> [default_timeout |-> 5],
     slow         |-> [default_timeout |-> 120],
     database     |-> [default_timeout |-> 10],
     external_api |-> [default_timeout |-> 30]]

\* How long an operation takes when nothing cancels it.
Durations == {1, 5, 40}

\* The coroutines put under a guard: the name of the function, how long it
\* takes, how it ends when left alone, and what it does when CancelledError
\* is thrown into it (lets it through, returns a value, raises).
Operations ==
    [__name__ : {"fetch_data"},
     takes : Durations,
     ends : {"value", "ValueError", "asyncio.TimeoutError"},
     on_cancel : {"CancelledError", "value", "ValueError"}]

NoOperation ==
    [__name__ |-> "", takes |-> 0, ends |-> "value",
     on_cancel |-> "CancelledError"]

Nothing == [kind |-> "none", what |-> "", args |-> <<>>]
returned(value) == [kind |-> "returned", what |-> value, args |-> <<>>]
raised(exc) == [kind |-> "raised", what |-> exc, args |-> <<>>]
\* class TimeoutError(Exception) of timeout.py
TimeoutError(op, timeout_seconds) ==
    [kind |-> "raised", what |-> "TimeoutError",
     args |-> <<op, timeout_seconds>>]

\* what the coroutine delivers when it runs to its end
ran(op) == IF op.ends = "value" THEN returned("data") ELSE raised(op.ends)

\* asyncio.wait_for after the timeout: the task is cancelled and awaited;
\* CancelledError becomes asyncio.TimeoutError, a task that ends otherwise
\* has its result returned or its exception raised.
wait_for_cancelled(op) ==
    CASE op.on_cancel = "CancelledError" -> raised("asyncio.TimeoutError")
      [] op.on_cancel = "value" -> returned("fallback")
      [] OTHER -> raised(op.on_cancel)

\* try: return await asyncio.wait_for(...)
\* except asyncio.TimeoutError: raise TimeoutError(op_name, timeout)
guarded(outcome, op_name, timeout) ==
    IF outcome.kind = "raised" /\ outcome.what = "asyncio.TimeoutError"
    THEN TimeoutError(op_name, timeout)
    ELSE outcome

\* with_timeout: seconds, else the preset's default_timeout, else the
\* default preset's
timeout_of(seconds, config_name) ==
    IF seconds # <<>> THEN seconds[1]
    ELSE IF config_name # <<>>
         THEN IF config_name[1] \in DOMAIN TIMEOUT_CONFIGS
              THEN TIMEOUT_CONFIGS[config_name[1]].default_timeout
              ELSE TIMEOUT_CONFIGS["default"].default_timeout
         ELSE TIMEOUT_CONFIGS["default"].default_timeout

NoGuard == [timeout |-> 0, op_name |-> ""]

InitGuard ==
    /\ guard = NoGuard
    /\ operation = NoOperation
    /\ gpc = "idle"
    /\ cancelled = FALSE
    /\ received = Nothing

GuardIdle == InitGuard

\* @with_timeout(seconds, config_name, operation_name) on f, and a call of
\* the wrapper up to the await of asyncio.wait_for
with_timeout ==
    /\ gpc = "idle"
    /\ \E seconds \in {<<>>, <<2>>},
          config_name \in {<<>>, <<"fast">>, <<"batch">>},
          operation_name \in {<<>>, <<"fetch">>},
          f \in Operations :
          /\ guard' = [timeout |-> timeout_of(seconds, config_name),
                       op_name |-> IF operation_name # <<>>
                                   THEN operation_name[1]
                                   ELSE f.__name__]
          /\ operation' = f
    /\ gpc' = "waiting"
    /\ cancelled' = FALSE
    /\ received' = Nothing
    /\ UNCHANGED notguard

\* run_with_timeout(coro, timeout_seconds, operation_name="operation") up
\* to the await of asyncio.wait_for
run_with_timeout ==
    /\ gpc = "idle"
    /\ \E timeout_seconds \in {2, 5},
          operation_name \in {<<>>, <<"fetch">>},
          coro \in Operations :
          /\ guard' = [timeout |-> timeout_seconds,
                       op_name |-> IF operation_name # <<>>
                                   THEN operation_name[1]
                                   ELSE "operation"]
          /\ operation' = coro
    /\ gpc' = "waiting"
    /\ cancelled' = FALSE
    /\ received' = Nothing
    /\ UNCHANGED notguard

\* The operation ends before the timer of wait_for fires (either can come
\* first when both fall on the same instant).
GuardCompleted ==
    /\ gpc = "waiting"
    /\ operation.takes <= guard.timeout
    /\ received' = guarded(ran(operation), guard.op_name, guard.timeout)
    /\ gpc' = "done"
    /\ UNCHANGED <<guard, operation, cancelled>>
    /\ UNCHANGED notguard

\* The timer fires first: wait_for cancels the operation.
GuardDeadline ==
    /\ gpc = "waiting"
    /\ operation.takes >= guard.timeout
    /\ cancelled' = TRUE
    /\ gpc' = "cancelling"
    /\ UNCHANGED <<guard, operation, received>>
    /\ UNCHANGED notguard

\* The cancelled operation has ended; wait_for and the guard deliver.
GuardCancelled ==
    /\ gpc = "cancelling"
    /\ received' = guarded(wait_for_cancelled(operation), guard.op_name,
                           guard.timeout)
    /\ gpc' = "done"
    /\ UNCHANGED <<guard, operation, cancelled>>
    /\ UNCHANGED notguard

\* The caller has its answer; the guard can be used again.
GuardReturn ==
    /\ gpc = "done"
    /\ gpc' = "idle"
    /\ UNCHANGED <<guard, operation, cancelled, received>>
    /\ UNCHANGED notguard

NextGuard ==
    \/ with_timeout
    \/ run_with_timeout
    \/ GuardCompleted
    \/ GuardDeadline
    \/ GuardCancelled
    \/ GuardReturn

(***************************************************************************)
(* AdaptiveTimeout.  Times are milliseconds; a product that is not a whole *)
(* number of milliseconds is rounded down.                                 *)
(***************************************************************************)
\* _update_timeout: "if len(self._latencies) < 10: return"
MinSamples == 10
\* No sample is recorded once the list holds more than MaxSamples samples.
MaxSamples == 10

\* AdaptiveTimeout(initial_timeout, min_timeout, max_timeout, percentile,
\* buffer_multiplier, window_size); buffer_multiplier is the fraction
\* <<numerator, denominator>> (1.5 is <<3, 2>>).  The constructor checks
\* none of its arguments.
AdaptiveConfigs ==
    {[initial_timeout |-> 900, min_timeout |-> 1000, max_timeout |-> 1200,
      percentile |-> 99, buffer_multiplier |-> <<3, 2>>, window_size |-> 10],
     [initial_timeout |-> 1100, min_timeout |-> 1000, max_timeout |-> 1200,
      percentile |-> 50, buffer_multiplier |-> <<3, 2>>, window_size |-> 10],
     [initial_timeout |-> 1500, min_timeout |-> 1000, max_timeout |-> 1100,
      percentile |-> 99, buffer_multiplier |-> <<3, 2>>, window_size |-> 10]}

\* Small and empty sample windows, with a timeout that cannot move.
WindowConfigs ==
    [initial_timeout : {1000}, min_timeout : {1000}, max_timeout : {1000},
     percentile : {99}, buffer_multiplier : {<<3, 2>>}, window_size : {0, 2}]

\* The latencies recorded, and those of the wrapped function when it ends
\* in time.
Latencies == {600, 740}

\* How the wrapped function ends when it ends in time.
Endings == {"value", "ValueError"}

NoAdaptiveEvent == [op |-> "none", got |-> Nothing]

\* sorted(self._latencies)
RECURSIVE insert(_, _)
insert(x, s) ==
    IF s = <<>> THEN <<x>>
    ELSE IF x <= Head(s) THEN <<x>> \o s
    ELSE <<Head(s)>> \o insert(x, Tail(s))

RECURSIVE sorted(_)
sorted(s) == IF s = <<>> THEN <<>> ELSE insert(Head(s), sorted(Tail(s)))

\* self._latencies[-self.window_size:]; in Python -0 is 0, so s[-0:] is
\* s[0:], the whole list
last(s, n) ==
    IF n > 0 /\ Len(s) > n THEN SubSeq(s, Len(s) - n + 1, Len(s)) ELSE s

\* record_latency: append and keep only the recent samples
appended(c, latencies, latency_seconds) ==
    last(Append(latencies, latency_seconds), c.window_size)

\* the percentile taken from the samples in the order they arrived
percentile_unsorted(c, latencies) ==
    latencies[Min((Len(latencies) * c.percentile) \div 100,
                  Len(latencies) - 1) + 1]

\* sorted_latencies[min(index, len - 1)] with
\* index = int(len * percentile / 100); Python counts from 0
percentile_value(c, latencies) ==
    LET sorted_latencies == sorted(latencies)
        index == (Len(sorted_latencies) * c.percentile) \div 100
    IN  sorted_latencies[Min(index, Len(sorted_latencies) - 1) + 1]

\* an update that does not wait for MinSamples samples
_update_timeout_eager(c, latencies, current) ==
    Max(c.min_timeout,
        Min(c.max_timeout,
            (percentile_value(c, latencies) * c.buffer_multiplier[1])
                \div c.buffer_multiplier[2]))

\* _update_timeout: the timeout that follows from the samples
_update_timeout(c, latencies, current) ==
    IF Len(latencies) < MinSamples THEN current
    ELSE LET new_timeout == (percentile_value(c, latencies)
                               * c.buffer_multiplier[1])
                                   \div c.buffer_multiplier[2]
         IN  Max(c.min_timeout, Min(c.max_timeout, new_timeout))

\* record_timeout: min(max_timeout, current * 1.1)
bumped(c, current) == Min(c.max_timeout, (current * 11) \div 10)

InitAdaptive ==
    /\ acfg \in AdaptiveConfigs
    /\ _latencies = <<>>
    /\ _current_timeout = acfg.initial_timeout
    /\ apc = "idle"
    /\ deadline = 0
    /\ aev = NoAdaptiveEvent

\* An AdaptiveTimeout nobody uses.
AdaptiveIdle ==
    /\ acfg = [initial_timeout |-> 1100, min_timeout |-> 1000,
               max_timeout |-> 1200, percentile |-> 99,
               buffer_multiplier |-> <<3, 2>>, window_size |-> 10]
    /\ _latencies = <<>>
    /\ _current_timeout = acfg.initial_timeout
    /\ apc = "idle"
    /\ deadline = 0
    /\ aev = NoAdaptiveEvent

\* AdaptiveTimeout.record_latency(latency_seconds)
record_latency ==
    \E latency_seconds \in Latencies :
        LET kept == appended(acfg, _latencies, latency_seconds) IN
        /\ Len(_latencies) <= MaxSamples
        /\ _latencies' = kept
        /\ _current_timeout' = _update_timeout(acfg, kept, _current_timeout)
        /\ aev' = [op |-> "record_latency", got |-> Nothing]
        /\ UNCHANGED <<acfg, apc, deadline>>
        /\ UNCHANGED notadapt

\* AdaptiveTimeout.record_timeout()
record_timeout ==
    /\ _current_timeout' = bumped(acfg, _current_timeout)
    /\ aev' = [op |-> "record_timeout", got |-> Nothing]
    /\ UNCHANGED <<acfg, _latencies, apc, deadline>>
    /\ UNCHANGED notadapt

\* The wrapper of AdaptiveTimeout.__call__ up to the await of
\* asyncio.wait_for(func(...), timeout=self._current_timeout)
AdaptiveCall ==
    /\ apc = "idle"
    /\ deadline' = _current_timeout
    /\ apc' = "waiting"
    /\ aev' = [op |-> "call", got |-> Nothing]
    /\ UNCHANGED <<acfg, _latencies, _current_timeout>>
    /\ UNCHANGED notadapt

\* func ended in time, time.time() - start after the call: a result has
\* its latency recorded, a failure passes through
AdaptiveCompleted ==
    /\ apc = "waiting"
    /\ \E took \in Latencies, ends \in Endings :
          /\ took <= deadline
          /\ IF ends = "value"
             THEN LET kept == appended(acfg, _latencies, took) IN
                  /\ Len(_latencies) <= MaxSamples
                  /\ _latencies' = kept
                  /\ _current_timeout' =
                         _update_timeout(acfg, kept, _current_timeout)
                  /\ aev' = [op |-> "returned", got |-> returned("data")]
             ELSE /\ aev' = [op |-> "failed", got |-> raised(ends)]
                  /\ UNCHANGED <<_latencies, _current_timeout>>
    /\ apc' = "idle"
    /\ UNCHANGED <<acfg, deadline>>
    /\ UNCHANGED notadapt

\* func, named fetch_data, did not end in time; asyncio.TimeoutError:
\* record_timeout(), then
\* raise TimeoutError(func.__name__, self._current_timeout)
AdaptiveTimedOut ==
    /\ apc = "waiting"
    /\ _current_timeout' = bumped(acfg, _current_timeout)
    /\ aev' = [op |-> "timed_out",
               got |-> TimeoutError("fetch_data",
                                    bumped(acfg, _current_timeout))]
    /\ apc' = "idle"
    /\ UNCHANGED <<acfg, _latencies, deadline>>
    /\ UNCHANGED notadapt

NextAdaptive ==
    \/ record_latency
    \/ record_timeout
    \/ AdaptiveCall
    \/ AdaptiveCompleted
    \/ AdaptiveTimedOut

(***************************************************************************)
(* The registry of named breakers: the module-level dict _circuit_breakers *)
(* and the functions circuit_breaker and get_circuit_breaker, called from  *)
(* several threads.  circuit_breaker(name) tests the dict (line 259),      *)
(* builds and stores a CircuitBreaker (260-265) and reads the dict (267);  *)
(* no lock is held, so another thread can run between these steps.         *)
(***************************************************************************)
\* At most MaxInstances CircuitBreaker objects are built.
MaxInstances == 3

\* The names call sites use.
Names == {"payments", "search"}

\* a CircuitBreaker just built for `name`
new_breaker(name) ==
    [name |-> name,
     b |-> [state |-> CLOSED, fail_counter |-> 0, opened_at |-> None]]

InitRegistry ==
    /\ _circuit_breakers = [n \in Names |-> 0]
    /\ instances = <<>>
    /\ regpc = [t \in Callers |-> "idle"]
    /\ regname = [t \in Callers |-> "payments"]
    /\ cb = [t \in Callers |-> 0]

RegistryIdle == InitRegistry

\* circuit_breaker(name, ...), line 259: if name not in _circuit_breakers
circuit_breaker(t, name) ==
    /\ regpc[t] = "idle"
    /\ regname' = [regname EXCEPT ![t] = name]
    /\ cb' = [cb EXCEPT ![t] = 0]
    /\ regpc' = [regpc EXCEPT ![t] = IF _circuit_breakers[name] = 0
                                     THEN "create" ELSE "lookup"]
    /\ UNCHANGED <<_circuit_breakers, instances>>
    /\ UNCHANGED notreg

\* lines 260-265: _circuit_breakers[name] = CircuitBreaker(name=name, ...)
circuit_breaker_create(t) ==
    /\ regpc[t] = "create"
    /\ Len(instances) < MaxInstances
    /\ instances' = Append(instances, new_breaker(regname[t]))
    /\ _circuit_breakers' =
           [_circuit_breakers EXCEPT ![regname[t]] = Len(instances) + 1]
    /\ regpc' = [regpc EXCEPT ![t] = "lookup"]
    /\ UNCHANGED <<regname, cb>>
    /\ UNCHANGED notreg

\* lines 267-272: cb = _circuit_breakers[name]; the decorator wraps with cb
circuit_breaker_lookup(t) ==
    /\ regpc[t] = "lookup"
    /\ cb' = [cb EXCEPT ![t] = _circuit_breakers[regname[t]]]
    /\ regpc' = [regpc EXCEPT ![t] = "idle"]
    /\ UNCHANGED <<_circuit_breakers, instances, regname>>
    /\ UNCHANGED notreg

\* get_circuit_breaker(name): _circuit_breakers.get(name)
get_circuit_breaker(t, name) ==
    /\ regpc[t] = "idle"
    /\ regname' = [regname EXCEPT ![t] = name]
    /\ cb' = [cb EXCEPT ![t] = _circuit_breakers[name]]
    /\ UNCHANGED <<_circuit_breakers, instances, regpc>>
    /\ UNCHANGED notreg

\* A call through the breaker a call site holds fails with a counted
\* failure (CircuitBreaker.call on that instance).
SiteFailure(t) ==
    /\ regpc[t] = "idle"
    /\ cb[t] # 0
    /\ instances[cb[t]].b.state = CLOSED
    /\ instances' =
           [instances EXCEPT ![cb[t]].b = handle_error(@, "ValueError", 0).b]
    /\ UNCHANGED <<_circuit_breakers, regpc, regname, cb>>
    /\ UNCHANGED notreg

NextRegistry ==
    \/ \E t \in Callers, name \in Names : circuit_breaker(t, name)
    \/ \E t \in Callers : circuit_breaker_create(t)
    \/ \E t \in Callers : circuit_breaker_lookup(t)
    \/ \E t \in Callers, name \in Names : get_circuit_breaker(t, name)
    \/ \E t \in Callers : SiteFailure(t)

(***************************************************************************)
(* InMemoryStorage: a dict of containers, each a dict from blob name to    *)
(* (bytes, metadata).  The methods are coroutines without an await inside, *)
(* so each runs as one step.  Only the bytes of a blob are kept here.      *)
(***************************************************************************)
Containers == {"c1", "c2"}
Blobs == {"a", "b"}
Bytes == {"v1", "v2"}

NoStorageEvent ==
    [op |-> "none", container |-> "", blob |-> "", returned |-> <<>>,
     raised |-> "none", existed |-> FALSE]

\* d[k] = v on a dict
put(d, k, v) == [x \in DOMAIN d \cup {k} |-> IF x = k THEN v ELSE d[x]]
\* del d[k]
without(d, k) == [x \in DOMAIN d \ {k} |-> d[x]]
\* {}
empty == [x \in {} |-> ""]

\* a create_container that starts the container afresh when it exists
created_anew(containers, container) == put(containers, container, empty)

\* "if container not in self._containers: self._containers[container] = {}"
created(containers, container) ==
    IF container \in DOMAIN containers THEN containers
    ELSE put(containers, container, empty)

\* container in self._containers and blob_name in self._containers[container]
has_blob(containers, container, blob_name) ==
    /\ container \in DOMAIN containers
    /\ blob_name \in DOMAIN containers[container]

InitStorage ==
    /\ _containers = empty
    /\ uploaded = [c \in Containers |-> [b \in Blobs |-> "absent"]]
    /\ sev = NoStorageEvent

StorageIdle == InitStorage

\* InMemoryStorage.upload_bytes
upload_bytes(container, blob_name, data) ==
    /\ LET cs == created(_containers, container) IN
       _containers' = put(cs, container, put(cs[container], blob_name, data))
    /\ uploaded' = [uploaded EXCEPT ![container][blob_name] = data]
    /\ sev' = [NoStorageEvent EXCEPT !.op = "upload_bytes",
                  !.container = container, !.blob = blob_name,
                  !.returned = <<"memory://storage", container, blob_name>>,
                  !.existed = (uploaded[container][blob_name] # "absent")]
    /\ UNCHANGED notstor

\* InMemoryStorage.download
download(container, blob_name) ==
    /\ sev' = IF has_blob(_containers, container, blob_name)
              THEN [NoStorageEvent EXCEPT !.op = "download",
                       !.container = container, !.blob = blob_name,
                       !.returned = <<_containers[container][blob_name]>>,
                       !.existed = (uploaded[container][blob_name] # "absent")]
              ELSE [NoStorageEvent EXCEPT !.op = "download",
                       !.container = container, !.blob = blob_name,
                       !.raised = "BlobNotFoundError",
                       !.existed = (uploaded[container][blob_name] # "absent")]
    /\ UNCHANGED <<_containers, uploaded>>
    /\ UNCHANGED notstor

\* InMemoryStorage.delete
delete(container, blob_name) ==
    /\ _containers' =
           IF has_blob(_containers, container, blob_name)
           THEN put(_containers, container,
                    without(_containers[container], blob_name))
           ELSE _containers
    /\ uploaded' = [uploaded EXCEPT ![container][blob_name] = "absent"]
    /\ sev' = [NoStorageEvent EXCEPT !.op = "delete",
                  !.container = container, !.blob = blob_name,
                  !.returned = <<has_blob(_containers, container, blob_name)>>,
                  !.existed = (uploaded[container][blob_name] # "absent")]
    /\ UNCHANGED notstor

\* InMemoryStorage.exists
exists(container, blob_name) ==
    /\ sev' = [NoStorageEvent EXCEPT !.op = "exists",
                  !.container = container, !.blob = blob_name,
                  !.returned = <<has_blob(_containers, container, blob_name)>>,
                  !.existed = (uploaded[container][blob_name] # "absent")]
    /\ UNCHANGED <<_containers, uploaded>>
    /\ UNCHANGED notstor

\* InMemoryStorage.create_container
create_container(container) ==
    /\ _containers' = created(_containers, container)
    /\ sev' = [NoStorageEvent EXCEPT !.op = "create_container",
                  !.container = container,
                  !.returned = <<container \notin DOMAIN _containers>>]
    /\ UNCHANGED uploaded
    /\ UNCHANGED notstor

\* InMemoryStorage.delete_container
delete_container(container) ==
    /\ _containers' = IF container \in DOMAIN _containers
                      THEN without(_containers, container)
                      ELSE _containers
    /\ uploaded' = [uploaded EXCEPT ![container] = [b \in Blobs |-> "absent"]]
    /\ sev' = [NoStorageEvent EXCEPT !.op = "delete_container",
                  !.container = container,
                  !.returned = <<container \in DOMAIN _containers>>]
    /\ UNCHANGED notstor

NextStorage ==
    \/ \E c \in Containers, b \in Blobs, data \in Bytes :
           upload_bytes(c, b, data)
    \/ \E c \in Containers, b \in Blobs : download(c, b)
    \/ \E c \in Containers, b \in Blobs : delete(c, b)
    \/ \E c \in Containers, b \in Blobs : exists(c, b)
    \/ \E c \in Containers : create_container(c)
    \/ \E c \in Containers : delete_container(c)

(***************************************************************************)
(* The two paths side by side: one breaker is driven through call alone,   *)
(* an identically configured one through call_async alone, by the same     *)
(* sequence of call times and operation outcomes.  One call is made at a   *)
(* time, so each call runs from admission to outcome in one step.          *)
(***************************************************************************)
NoDecision == [admitted |-> FALSE, raised |-> "none"]

NoPathEvent ==
    [op |-> "none", outcome |-> "none", call |-> NoDecision,
     call_async |-> NoDecision]

\* CircuitBreaker.call, lines 181-186, run to its end at time t with an
\* operation that ends with `outcome` when it is invoked
sync_call(b, t, outcome) ==
    IF b.state = OPEN /\ still_open(b, t)
    THEN [b |-> b, admitted |-> FALSE,
          raised |-> call_raised("pybreaker.CircuitBreakerError")]
    ELSE LET b1 == IF b.state = OPEN THEN half_open(b) ELSE b
             r == IF outcome = "ok"
                  THEN [b |-> handle_success(b1), raised |-> "none"]
                  ELSE handle_error(b1, outcome, t)
         IN  [b |-> r.b, admitted |-> TRUE, raised |-> call_raised(r.raised)]

\* CircuitBreaker.call_async, lines 207-218, run to its end at time t
async_call(b, t, outcome) ==
    IF b.state = OPEN
    THEN [b |-> b, admitted |-> FALSE, raised |-> "CircuitBreakerOpenError"]
    ELSE [b |-> async_recorded(b, outcome, t), admitted |-> TRUE,
          raised |-> call_async_raised(outcome)]

InitPaths ==
    /\ via_call = [state |-> CLOSED, fail_counter |-> 0, opened_at |-> None]
    /\ via_call_async = via_call
    /\ pnow = 0
    /\ pev = NoPathEvent

PathIdle == InitPaths

\* The same call is made on both breakers.
Drive(outcome) ==
    LET s == sync_call(via_call, pnow, outcome)
        a == async_call(via_call_async, pnow, outcome)
    IN  /\ via_call' = s.b
        /\ via_call_async' = a.b
        /\ pev' = [op |-> "drive", outcome |-> outcome,
                   call |-> [admitted |-> s.admitted, raised |-> s.raised],
                   call_async |->
                       [admitted |-> a.admitted, raised |-> a.raised]]
        /\ UNCHANGED pnow
        /\ UNCHANGED notpath

\* The clock of both breakers advances.
PathTick ==
    /\ pnow < MaxTime
    /\ pnow' = pnow + 1
    /\ pev' = [NoPathEvent EXCEPT !.op = "tick"]
    /\ UNCHANGED <<via_call, via_call_async>>
    /\ UNCHANGED notpath

NextPaths ==
    \/ \E o \in Outcomes : Drive(o)
    \/ PathTick

(***************************************************************************)
(* InMemoryMessageBroker: one queue, created by create_queue with a        *)
(* max_delivery_count and a lock_duration.  The methods are coroutines     *)
(* that never wait, so each runs as one step.  A message is its id; every  *)
(* message is sent once, without a delay, and callers complete, abandon    *)
(* and dead-letter messages that were sent.  Message.status and            *)
(* Message.properties are written and never read by the broker; they are   *)
(* left out.                                                               *)
(***************************************************************************)
\* The broker clock runs over 0..MsgMaxTime.
MsgMaxTime == 3
\* dead_letter_message is not called once the dead-letter list holds
\* MaxDeadLetters entries.
MaxDeadLetters == 2

Messages == {"m1", "m2"}

\* create_queue(queue, max_delivery_count, lock_duration)
QueueConfigs == [max_delivery_count : {1, 2}, lock_duration : {2}]

NoBrokerEvent ==
    [op |-> "none", msg |-> "", returned |-> <<>>, max_messages |-> 0,
     processing |-> {}, locked |-> {}, at |-> 0]

\* [m for m in messages if m.id not in ids]
RECURSIVE filtered(_, _)
filtered(messages, ids) ==
    IF messages = <<>> THEN <<>>
    ELSE IF Head(messages) \in ids THEN filtered(Tail(messages), ids)
         ELSE <<Head(messages)>> \o filtered(Tail(messages), ids)

\* messages[:n]
first(messages, n) ==
    IF Len(messages) > n THEN SubSeq(messages, 1, n) ELSE messages

\* the elements of a list
elements(messages) == {messages[i] : i \in DOMAIN messages}

\* a check that dead-letters only beyond max_delivery_count
exhausted_beyond(count, c) == count > c.max_delivery_count

\* abandon_message, line 133:
\* message.delivery_count >= config.max_delivery_count
exhausted(count, c) == count >= c.max_delivery_count

InitBroker ==
    /\ qcfg \in QueueConfigs
    /\ _queue = <<>>
    /\ _dead_letters = <<>>
    /\ _processing = {}
    /\ delivery_count = [m \in Messages |-> 0]
    /\ sent = {}
    /\ locked_at = [m \in Messages |-> 0]
    /\ mnow = 0
    /\ mev = NoBrokerEvent

\* A broker nobody uses.
BrokerIdle ==
    /\ qcfg = [max_delivery_count |-> 2, lock_duration |-> 2]
    /\ _queue = <<>>
    /\ _dead_letters = <<>>
    /\ _processing = {}
    /\ delivery_count = [m \in Messages |-> 0]
    /\ sent = {}
    /\ locked_at = [m \in Messages |-> 0]
    /\ mnow = 0
    /\ mev = NoBrokerEvent

\* InMemoryMessageBroker.send_to_queue(queue, message)
send_to_queue(message) ==
    /\ message \notin sent
    /\ _queue' = Append(_queue, message)
    /\ sent' = sent \cup {message}
    /\ mev' = [NoBrokerEvent EXCEPT !.op = "send", !.msg = message,
                  !.returned = <<TRUE>>, !.at = mnow]
    /\ UNCHANGED <<qcfg, _dead_letters, _processing, delivery_count,
                   locked_at, mnow>>
    /\ UNCHANGED notmsg

\* InMemoryMessageBroker.receive_from_queue(queue, max_messages)
receive_from_queue(max_messages) ==
    LET available == filtered(_queue, _processing)
        received_ == first(available, max_messages)
    IN  /\ delivery_count' =
               [m \in Messages |->
                   IF m \in elements(received_) THEN delivery_count[m] + 1
                   ELSE delivery_count[m]]
        /\ _processing' = _processing \cup elements(received_)
        /\ locked_at' =
               [m \in Messages |->
                   IF m \in elements(received_) THEN mnow ELSE locked_at[m]]
        /\ mev' = [NoBrokerEvent EXCEPT !.op = "receive",
                      !.returned = received_, !.max_messages = max_messages,
                      !.processing = _processing,
                      !.locked =
                          {m \in _processing :
                              mnow < locked_at[m] + qcfg.lock_duration},
                      !.at = mnow]
        /\ UNCHANGED <<qcfg, _queue, _dead_letters, sent, mnow>>
        /\ UNCHANGED notmsg

\* InMemoryMessageBroker.complete_message(queue, message)
complete_message(message) ==
    /\ message \in sent
    /\ IF message \in _processing
       THEN /\ _processing' = _processing \ {message}
            /\ _queue' = filtered(_queue, {message})
       ELSE UNCHANGED <<_processing, _queue>>
    /\ mev' = [NoBrokerEvent EXCEPT !.op = "complete", !.msg = message,
                  !.returned = <<message \in _processing>>,
                  !.processing = _processing, !.at = mnow]
    /\ UNCHANGED <<qcfg, _dead_letters, delivery_count, sent, locked_at,
                   mnow>>
    /\ UNCHANGED notmsg

\* InMemoryMessageBroker.abandon_message(queue, message), with the
\* dead_letter_message it awaits when the delivery count is used up
abandon_message(message) ==
    /\ message \in sent
    /\ IF message \in _processing
       THEN /\ _processing' = _processing \ {message}
            /\ IF exhausted(delivery_count[message], qcfg)
               THEN /\ _queue' = filtered(_queue, {message})
                    /\ _dead_letters' = Append(_dead_letters, message)
               ELSE UNCHANGED <<_queue, _dead_letters>>
       ELSE UNCHANGED <<_processing, _queue, _dead_letters>>
    /\ mev' = [NoBrokerEvent EXCEPT !.op = "abandon", !.msg = message,
                  !.returned = <<message \in _processing>>,
                  !.processing = _processing, !.at = mnow]
    /\ UNCHANGED <<qcfg, delivery_count, sent, locked_at, mnow>>
    /\ UNCHANGED notmsg

\* InMemoryMessageBroker.dead_letter_message(queue, message, reason)
dead_letter_message(message) ==
    /\ message \in sent
    /\ Len(_dead_letters) < MaxDeadLetters
    /\ _processing' = _processing \ {message}
    /\ _queue' = filtered(_queue, {message})
    /\ _dead_letters' = Append(_dead_letters, message)
    /\ mev' = [NoBrokerEvent EXCEPT !.op = "dead_letter", !.msg = message,
                  !.returned = <<TRUE>>, !.processing = _processing,
                  !.at = mnow]
    /\ UNCHANGED <<qcfg, delivery_count, sent, locked_at, mnow>>
    /\ UNCHANGED notmsg

\* The broker clock advances.
BrokerTick ==
    /\ mnow < MsgMaxTime
    /\ mnow' = mnow + 1
    /\ mev' = [NoBrokerEvent EXCEPT !.op = "tick", !.at = mnow + 1]
    /\ UNCHANGED <<qcfg, _queue, _dead_letters, _processing, delivery_count,
                   sent, locked_at>>
    /\ UNCHANGED notmsg

NextBroker ==
    \/ \E m \in Messages : send_to_queue(m)
    \/ \E n \in 1..2 : receive_from_queue(n)
    \/ \E m \in Messages : complete_message(m)
    \/ \E m \in Messages : abandon_message(m)
    \/ \E m \in Messages : dead_letter_message(m)
    \/ BrokerTick

\* No retried call is under way.
RetryIdle ==
    /\ config = [max_attempts |-> 3, max_delay_seconds |-> 4,
                 initial_delay_seconds |-> 1, exponential_base |-> 2,
                 jitter |-> TRUE, retry_exceptions |-> {"Exception"},
                 exclude_exceptions |-> {}]
    /\ rpc = "idle"
    /\ attempt_number = 0
    /\ outcomes = <<>>
    /\ slept = <<>>
    /\ result = NoResult
    /\ on_retry = FALSE
    /\ on_retry_calls = <<>>
    /\ held = NoConfig
    /\ cev = "none"

\* The circuit breaker under concurrent callers.
Init ==
    InitCB /\ RetryIdle /\ BudgetIdle /\ GuardIdle /\ AdaptiveIdle
        /\ RegistryIdle /\ StorageIdle /\ PathIdle /\ BrokerIdle

Spec == Init /\ [][NextCB]_vars

\* The circuit breaker in front of a dependency that recovers.
SpecRecovered == Init /\ [][NextRecovered]_vars /\ FairRecovered

\* One retried call, for every accepted RetryConfig.
RetryInit ==
    InitRetry /\ InitCB /\ BudgetBeside /\ GuardIdle /\ AdaptiveIdle
        /\ RegistryIdle /\ StorageIdle /\ PathIdle /\ BrokerIdle

SpecRetry == RetryInit /\ [][NextRetry]_vars

BudgetInit ==
    InitBudget /\ InitCB /\ RetryIdle /\ GuardIdle /\ AdaptiveIdle
        /\ RegistryIdle /\ StorageIdle /\ PathIdle /\ BrokerIdle

\* A RetryBudget used by any callers.
SpecBudget == BudgetInit /\ [][NextBudget]_vars

\* A RetryBudget whose callers record a retry only when can_retry() allows it.
SpecDisciplined == BudgetInit /\ [][NextDisciplined]_vars

GuardInit ==
    InitGuard /\ InitCB /\ RetryIdle /\ BudgetIdle /\ AdaptiveIdle
        /\ RegistryIdle /\ StorageIdle /\ PathIdle /\ BrokerIdle

\* One coroutine at a time under a fixed timeout guard.
SpecGuard == GuardInit /\ [][NextGuard]_vars

AdaptiveInit ==
    InitAdaptive /\ InitCB /\ RetryIdle /\ BudgetIdle /\ GuardIdle
        /\ RegistryIdle /\ StorageIdle /\ PathIdle /\ BrokerIdle

\* An AdaptiveTimeout: its methods called directly and through its wrapper.
SpecAdaptive == AdaptiveInit /\ [][NextAdaptive]_vars

WindowInit ==
    /\ acfg \in WindowConfigs
    /\ _latencies = <<>>
    /\ _current_timeout = acfg.initial_timeout
    /\ apc = "idle"
    /\ deadline = 0
    /\ aev = NoAdaptiveEvent
    /\ InitCB /\ RetryIdle /\ BudgetIdle /\ GuardIdle
    /\ RegistryIdle /\ StorageIdle /\ PathIdle /\ BrokerIdle

\* An AdaptiveTimeout with a small or empty sample window.
SpecWindow == WindowInit /\ [][NextAdaptive]_vars

ConfigInit ==
    RetryIdle /\ InitCB /\ BudgetIdle /\ GuardIdle /\ AdaptiveIdle
        /\ RegistryIdle /\ StorageIdle /\ PathIdle /\ BrokerIdle

\* RetryConfig objects: built, taken from the presets, assigned to.
SpecConfig == ConfigInit /\ [][NextConfig]_vars

RegistryInit ==
    InitRegistry /\ InitCB /\ RetryIdle /\ BudgetIdle /\ GuardIdle
        /\ AdaptiveIdle /\ StorageIdle /\ PathIdle /\ BrokerIdle

\* The registry of named breakers used from two threads.
SpecRegistry == RegistryInit /\ [][NextRegistry]_vars

StorageInit ==
    InitStorage /\ InitCB /\ RetryIdle /\ BudgetIdle /\ GuardIdle
        /\ AdaptiveIdle /\ RegistryIdle /\ PathIdle /\ BrokerIdle

\* An InMemoryStorage under any sequence of its operations.
SpecStorage == StorageInit /\ [][NextStorage]_vars

PathsInit ==
    InitPaths /\ InitCB /\ RetryIdle /\ BudgetIdle /\ GuardIdle
        /\ AdaptiveIdle /\ RegistryIdle /\ StorageIdle /\ BrokerIdle

\* Two breakers, one behind call and one behind call_async.
SpecPaths == PathsInit /\ [][NextPaths]_vars

BrokerInit ==
    InitBroker /\ InitCB /\ RetryIdle /\ BudgetIdle /\ GuardIdle
        /\ AdaptiveIdle /\ RegistryIdle /\ StorageIdle /\ PathIdle

\* One queue of an InMemoryMessageBroker under any sequence of operations.
SpecBroker == BrokerInit /\ [][NextBroker]_vars

(***************************************************************************)
(* C10: with maxAttempts = N and an operation that fails with a retryable  *)
(* failure on every attempt, the operation is invoked exactly N times and  *)
(* the caller receives the failure of the N-th attempt itself, not wrapped *)
(* and not an earlier attempt's failure.                                   *)
(***************************************************************************)
AlwaysRetryable ==
    \A i \in 1..Len(outcomes) : retry_condition(config, outcomes[i])

C10_ExhaustionPropagatesLast ==
    /\ AlwaysRetryable => Len(outcomes) <= config.max_attempts
    /\ (rpc = "done" /\ AlwaysRetryable)
          => /\ Len(outcomes) = config.max_attempts
             /\ result = [kind |-> "raised", attempt |-> config.max_attempts,
                          failure |-> outcomes[config.max_attempts]]

\* three attempts failed in turn with different kinds; the last one is raised
C10_Witness ==
    /\ rpc = "done"
    /\ config.max_attempts = 3
    /\ outcomes = <<"ConnectionError", "TimeoutError", "ConnectionError">>
    /\ result.failure = "ConnectionError"
    /\ result.attempt = 3

(***************************************************************************)
(* C11: a failure whose kind is not in retryableFailureKinds, or is in     *)
(* excludedFailureKinds (even when it also matches retryableFailureKinds), *)
(* is propagated after the attempt that raised it, with no sleep and no    *)
(* further invocation of the operation.                                    *)
(***************************************************************************)
NotToBeRetried(c, o) ==
    /\ o # "ok"
    /\ (~isinstance(o, c.retry_exceptions) \/ o \in c.exclude_exceptions)

C11_NonRetryablePropagatesAtOnce ==
    \A i \in 1..Len(outcomes) :
        NotToBeRetried(config, outcomes[i])
            => /\ i = Len(outcomes)
               /\ rpc = "done"
               /\ Len(slept) = i - 1
               /\ result = [kind |-> "raised", attempt |-> i,
                            failure |-> outcomes[i]]

(***************************************************************************)
(* C12: with jitter disabled, for every accepted RetryConfig, the sleep    *)
(* after attempt k is min(maxDelay, initialDelay * backoffBase^(k-1)).     *)
(***************************************************************************)
Backoff(c, k) ==
    Min(c.max_delay_seconds,
        c.initial_delay_seconds * Pow(c.exponential_base, k - 1))

C12_BackoffWithoutJitter ==
    ~config.jitter
        => \A k \in 1..Len(slept) : slept[k] = Backoff(config, k)

(***************************************************************************)
(* C13: with jitter enabled, the sleep after attempt k lies in             *)
(* [0, min(maxDelay, initialDelay * backoffBase^(k-1))].                   *)
(***************************************************************************)
C13_FullJitter ==
    config.jitter
        => \A k \in 1..Len(slept) :
               slept[k] >= 0 /\ slept[k] <= Backoff(config, k)

(***************************************************************************)
(* C14: a call whose attempts 1..j-1 fail with retryable failures and      *)
(* whose attempt j succeeds invokes the operation j times, sleeps j-1      *)
(* times, never after the last attempt, and returns the j-th result; with  *)
(* maxAttempts=3, initialDelay=1, backoffBase=2, jitter off and j=3 the    *)
(* sleeps add up to 1 + 2 = 3.                                             *)
(***************************************************************************)
RECURSIVE SumSeq(_)
SumSeq(q) == IF q = <<>> THEN 0 ELSE q[1] + SumSeq(Tail(q))

ExampleConfig(c) ==
    /\ c.max_attempts = 3
    /\ c.initial_delay_seconds = 1
    /\ c.exponential_base = 2
    /\ ~c.jitter
    /\ c.max_delay_seconds >= 2

C14_SuccessAfterRetries ==
    /\ Len(slept) <= Len(outcomes)
    /\ rpc = "done" => Len(slept) = Len(outcomes) - 1
    /\ (rpc = "done" /\ result.kind = "returned")
          => /\ result.attempt = Len(outcomes)
             /\ outcomes[Len(outcomes)] = "ok"
             /\ \A i \in 1..(Len(outcomes) - 1) :
                    retry_condition(config, outcomes[i])
             /\ (ExampleConfig(config) /\ Len(outcomes) = 3)
                    => (slept = <<1, 2>> /\ SumSeq(slept) = 3)

C14_Witness ==
    /\ rpc = "done"
    /\ result = [kind |-> "returned", attempt |-> 3, failure |-> "none"]
    /\ ExampleConfig(config)
    /\ outcomes = <<"ConnectionError", "TimeoutError", "ok">>
    /\ SumSeq(slept) = 3

(***************************************************************************)
(* Counts over the window that ends at time t.                             *)
(***************************************************************************)
InWindow(log, t) ==
    Cardinality({i \in 1..Len(log) : log[i] > t - bcfg.window_seconds})
\* the retries the floor rate allows in one window
FloorCount == bcfg.min_retries_per_second * bcfg.window_seconds

(***************************************************************************)
(* C15: with a RetryBudget beside it, the retry policy records one request *)
(* per original call and one retry before each retry attempt, and it does  *)
(* not sleep for a retry when can_retry() is false.                        *)
(***************************************************************************)
C15_BudgetConsulted ==
    /\ rpc # "idle" => _requests # <<>>
    /\ attempt_number > 1 => Len(_retries) >= attempt_number - 1
    /\ rpc = "sleeping" => can_retry_at(bcfg, _requests, _retries, bnow)

(***************************************************************************)
(* C16: for callers that record a retry only after can_retry() returned    *)
(* true, the retries inside the window never exceed maxRetryPercent of the *)
(* requests inside the window by more than the retries the floor rate      *)
(* permits.                                                                *)
(***************************************************************************)
C16_BudgetInvariant ==
    (InWindow(_retries, bnow) - FloorCount) * 100
        <= bcfg.budget_percent * InWindow(_requests, bnow)

(***************************************************************************)
(* C17: can_retry() returns true whenever (retries in window) /            *)
(* windowDuration < minRetriesPerSecondFloor, whatever the ratio of        *)
(* retries to requests, also with no recorded request.                     *)
(***************************************************************************)
C17_FloorAlwaysAllowed ==
    (bev.op = "can_retry" /\ InWindow(bev.retries, bev.at) < FloorCount)
        => bev.returned

\* below the floor, yet at 100 per cent of the requests in the window
C17_Witness ==
    /\ bev.op = "can_retry"
    /\ InWindow(bev.retries, bev.at) = 1
    /\ InWindow(bev.requests, bev.at) = 1
    /\ FloorCount = 2
    /\ Len(bev.requests) > 1
    /\ bev.returned

(***************************************************************************)
(* C18: can_retry() returns false whenever the retry rate in the window is *)
(* at or above the floor and the retries in the window exceed              *)
(* maxRetryPercent of the requests in the window, for every number of      *)
(* recorded requests including none.                                       *)
(***************************************************************************)
C18_OverBudgetRefused ==
    (/\ bev.op = "can_retry"
     /\ InWindow(bev.retries, bev.at) >= FloorCount
     /\ InWindow(bev.retries, bev.at) * 100
            > bcfg.budget_percent * InWindow(bev.requests, bev.at))
        => ~bev.returned

(***************************************************************************)
(* C19: a fixed timeout guard returns the operation's result when the      *)
(* operation completes before the deadline; when the deadline elapses      *)
(* first, the operation is cancelled, whatever it still produces is        *)
(* discarded, and the caller gets TimeoutError with the operation label    *)
(* and the configured duration.                                            *)
(***************************************************************************)
C19_FixedGuard ==
    gpc = "done" =>
        /\ (~cancelled /\ operation.ends = "value")
               => received = returned("data")
        /\ cancelled => received = TimeoutError(guard.op_name, guard.timeout)

(***************************************************************************)
(* C20: in every reachable state of an AdaptiveTimeout, from construction  *)
(* on and after any record_latency and record_timeout,                     *)
(* minTimeout <= current_timeout <= maxTimeout.                            *)
(***************************************************************************)
C20_TimeoutWithinBounds ==
    /\ acfg.min_timeout <= _current_timeout
    /\ _current_timeout <= acfg.max_timeout

(***************************************************************************)
(* What the last step on the AdaptiveTimeout was.                          *)
(***************************************************************************)
LatencyRecorded == aev.op \in {"record_latency", "returned"}

(***************************************************************************)
(* C21: while an AdaptiveTimeout holds fewer than 10 latency samples, its  *)
(* current timeout equals the initial timeout after every operation on it  *)
(* (successful calls, recorded latencies and timeout occurrences).         *)
(***************************************************************************)
C21_InitialUntilTenSamples ==
    Len(_latencies) < MinSamples => _current_timeout = acfg.initial_timeout

\* C21 as amended: a successful call or a recorded latency that leaves
\* fewer than 10 samples leaves the current timeout as it was; a timeout
\* occurrence is what widens it.
C21_UnchangedBySamplesUntilTen ==
    [][(aev'.op \in {"record_latency", "returned"}
            /\ Len(_latencies') < MinSamples)
        => _current_timeout' = _current_timeout]_vars

\* nine samples recorded, the last just now, none of them moved the timeout
C21_Witness ==
    /\ LatencyRecorded
    /\ Len(_latencies) = MinSamples - 1
    /\ _current_timeout = acfg.initial_timeout

(***************************************************************************)
(* C22: after a record_latency that leaves n >= 10 samples in the window,  *)
(* current_timeout = clamp(minTimeout, maxTimeout,                         *)
(* s[min(floor(n * targetPercentile / 100), n - 1)] * bufferMultiplier),   *)
(* s being the ascending sort of the samples in the window.                *)
(***************************************************************************)
\* element k (from 0) of the ascending sort: at most k samples lie below it
\* and more than k samples do not lie above it
Ranked(latencies, k) ==
    CHOOSE v \in {latencies[i] : i \in 1..Len(latencies)} :
        /\ Cardinality({i \in 1..Len(latencies) : latencies[i] < v}) <= k
        /\ Cardinality({i \in 1..Len(latencies) : latencies[i] <= v}) > k

clamp(lo, hi, x) == IF x < lo THEN lo ELSE IF x > hi THEN hi ELSE x

C22_PercentileTimeout ==
    (LatencyRecorded /\ Len(_latencies) >= MinSamples) =>
        LET n == Len(_latencies)
            k == IF (n * acfg.percentile) \div 100 < n - 1
                 THEN (n * acfg.percentile) \div 100 ELSE n - 1
        IN  _current_timeout =
                clamp(acfg.min_timeout, acfg.max_timeout,
                      (Ranked(_latencies, k) * acfg.buffer_multiplier[1])
                          \div acfg.buffer_multiplier[2])

\* a full window at the median, the larger sample first in the window and
\* the smaller one the median: the timeout is the buffered median, clamped
C22_Witness ==
    /\ aev.op = "record_latency"
    /\ Len(_latencies) = acfg.window_size
    /\ acfg.percentile = 50
    /\ _latencies[1] = 740
    /\ _latencies[6] = 740
    /\ Ranked(_latencies, 5) = 600
    /\ _current_timeout = acfg.min_timeout

(***************************************************************************)
(* C23: a TimeoutError raised by a timeout guard carries the timeout that  *)
(* was in effect when the timed-out call started; for the adaptive guard   *)
(* the value used as that call's deadline, not one computed afterwards.    *)
(***************************************************************************)
C23_CarriesDeadline ==
    /\ aev.op = "timed_out" => aev.got = TimeoutError("fetch_data", deadline)
    /\ (gpc = "done" /\ received.what = "TimeoutError")
           => received.args[2] = guard.timeout

(***************************************************************************)
(* C24: each timeout occurrence on an AdaptiveTimeout sets current_timeout *)
(* to min(maxTimeout, current_timeout * 1.1) whatever the samples, so over *)
(* consecutive timeouts the current timeout never decreases (and reaches   *)
(* maxTimeout after finitely many of them).                                *)
(***************************************************************************)
C24_TimeoutWidens ==
    [][aev'.op \in {"record_timeout", "timed_out"}
        => /\ _current_timeout' =
                  Min(acfg.max_timeout, (_current_timeout * 11) \div 10)
           /\ _current_timeout' >= _current_timeout]_vars

(***************************************************************************)
(* C25: creating or retrieving a breaker through the registry with the     *)
(* same name always yields the same CircuitBreaker instance, so failures   *)
(* recorded through one call site are visible at every other call site     *)
(* using that name; distinct names never share state.                      *)
(***************************************************************************)
C25_OneInstancePerName ==
    \A t1, t2 \in Callers :
        (cb[t1] # 0 /\ cb[t2] # 0) =>
            /\ regname[t1] = regname[t2] =>
                   /\ cb[t1] = cb[t2]
                   /\ instances[cb[t1]].b = instances[cb[t2]].b
            /\ regname[t1] # regname[t2] => cb[t1] # cb[t2]

(***************************************************************************)
(* C26: a timeout raised by the timeout guard is an ordinary failure for   *)
(* the retry policy and the breaker: under a retry config whose retryable  *)
(* kinds name TimeoutError (the "database" preset) it triggers a retry,    *)
(* so such a call ends with the guard's TimeoutError only after all        *)
(* max_attempts attempts; on a breaker that does not exclude it, it counts *)
(* toward the failure threshold.                                           *)
(***************************************************************************)
C26_GuardTimeoutRetried ==
    (/\ rpc = "done"
     /\ result.kind = "raised"
     /\ result.failure = "timeout.TimeoutError"
     /\ "TimeoutError" \in config.retry_exceptions)
        => result.attempt = config.max_attempts

(***************************************************************************)
(* C29: when create_retry_decorator is given an on_retry callback, the     *)
(* callback is called once before each retry (j-1 times for a call that    *)
(* makes j attempts) with the number of the attempt that just failed and   *)
(* the failure it raised.                                                  *)
(***************************************************************************)
C29_OnRetryCalled ==
    (on_retry /\ rpc \in {"sleeping", "done"}) =>
        /\ Len(on_retry_calls) = Len(slept)
        /\ \A i \in 1..Len(on_retry_calls) :
               on_retry_calls[i] = <<i, outcomes[i]>>

(***************************************************************************)
(* C27: every RetryConfig in use satisfies maxAttempts >= 1 and            *)
(* initialDelay > 0: a construction that violates either fails and makes   *)
(* no config, all named presets satisfy the bounds, and a config cannot be *)
(* changed after construction to violate them.                             *)
(***************************************************************************)
C27_ConfigBounds ==
    /\ held # NoConfig => valid_config(held)
    /\ \A name \in DOMAIN RETRY_CONFIGS : valid_config(RETRY_CONFIGS[name])

(***************************************************************************)
(* C28: reading a breaker's state, failure_count or is_open never changes  *)
(* the breaker: state, failure count and opening time are the same after   *)
(* the read as before it, also after resetTimeout has elapsed on an OPEN   *)
(* breaker.                                                                *)
(***************************************************************************)
C28_ReadsChangeNothing ==
    ev.op \in Properties => breaker = ev.pre

\* the state is read on an OPEN breaker whose reset timeout has run out
C28_Witness ==
    /\ ev.op = "state"
    /\ ev.value = <<OPEN>>
    /\ breaker.state = OPEN
    /\ breaker.opened_at # None
    /\ now >= breaker.opened_at[1] + reset_timeout

(***************************************************************************)
(* C30: in InMemoryStorage, after any sequence of upload_bytes, delete,    *)
(* create_container and delete_container, exists(c, b) is true exactly     *)
(* when b was uploaded to c and neither b nor c has been deleted since,    *)
(* download(c, b) then returns the bytes of the most recent upload,        *)
(* download of a non-existing blob fails with BlobNotFoundError, and       *)
(* delete returns true exactly when the blob existed.                      *)
(***************************************************************************)
C30_StorageContents ==
    /\ sev.op = "exists" => sev.returned = <<sev.existed>>
    /\ sev.op = "download" =>
           IF sev.existed
           THEN /\ sev.returned = <<uploaded[sev.container][sev.blob]>>
                /\ sev.raised = "none"
           ELSE /\ sev.returned = <<>>
                /\ sev.raised = "BlobNotFoundError"
    /\ sev.op = "delete" => sev.returned = <<sev.existed>>

\* a blob uploaded twice is downloaded, and its container was created by
\* the upload, beside a blob of the same container that was deleted
C30_Witness ==
    /\ sev.op = "download"
    /\ sev.returned = <<"v2">>
    /\ uploaded[sev.container] = [b \in Blobs |->
                                     IF b = sev.blob THEN "v2" ELSE "absent"]
    /\ \E c \in Containers : c \notin DOMAIN _containers

(***************************************************************************)
(* C31: if a breaker is OPEN, the dependency has recovered (every invoked  *)
(* operation succeeds) and callers keep issuing calls through either call  *)
(* or call_async, the breaker eventually becomes CLOSED without a manual   *)
(* reset(); it cannot remain OPEN forever.                                 *)
(***************************************************************************)
C31_EventuallyCloses ==
    (breaker.state = OPEN /\ now >= RecoveredAt) ~> (breaker.state = CLOSED)

(***************************************************************************)
(* C34: with several async callers in flight on one breaker, a call that   *)
(* was admitted while the breaker was CLOSED and completes successfully    *)
(* after other calls have opened the breaker does not take the breaker out *)
(* of OPEN or reset its failure count: an OPEN breaker leaves OPEN only    *)
(* through the timer-gated trial or reset().                               *)
(***************************************************************************)
C34_OpenLeftByTrialOrReset ==
    [][breaker.state = OPEN =>
          \/ /\ breaker'.state = OPEN
             /\ breaker'.fail_counter = breaker.fail_counter
          \/ ev'.op = "reset"
          \/ Admitted(ev') /\ ev'.trial /\ CooldownOver(ev')]_vars

\* a call_async admitted before the breaker opened ends with a success
\* while the breaker is OPEN
C34_Witness ==
    /\ Completed(ev) /\ ev.op = "call_async" /\ ev.outcome = "ok"
    /\ ev.pre.state = OPEN
    /\ ev.pre.fail_counter >= fail_max
    /\ breaker.state = OPEN

(***************************************************************************)
(* C32: in every reachable state of a breaker, state = CLOSED implies      *)
(* 0 <= failure count < failThreshold, and the failure count while CLOSED  *)
(* equals the number of non-excluded failures recorded since the last      *)
(* success, reset() or transition into CLOSED.  (streak >= 0 is that       *)
(* number when only failures followed the last of these events.)           *)
(***************************************************************************)
C32_ClosedFailureCount ==
    breaker.state = CLOSED =>
        /\ 0 <= breaker.fail_counter
        /\ breaker.fail_counter < fail_max
        /\ streak >= 0 => breaker.fail_counter = streak

(***************************************************************************)
(* C35: after any RetryBudget operation (record_request, record_retry or   *)
(* can_retry) performed at time now, neither log contains a timestamp t    *)
(* with t <= now - windowDuration, and every event recorded with           *)
(* t > now - windowDuration is still present; can_retry() therefore only   *)
(* counts events inside the window.                                        *)
(***************************************************************************)
Count(log, t) == Cardinality({i \in DOMAIN log : log[i] = t})

C35_PrunedToWindow ==
    bev.op \in {"record_request", "record_retry", "can_retry"} =>
        LET cutoff == bev.at - bcfg.window_seconds IN
        /\ \A i \in DOMAIN _requests : _requests[i] > cutoff
        /\ \A i \in DOMAIN _retries : _retries[i] > cutoff
        /\ \A t \in (cutoff + 1)..bev.at :
              /\ Count(_requests, t) =
                     Count(bev.requests, t)
                         + IF bev.op = "record_request" /\ t = bev.at
                           THEN 1 ELSE 0
              /\ Count(_retries, t) =
                     Count(bev.retries, t)
                         + IF bev.op = "record_retry" /\ t = bev.at
                           THEN 1 ELSE 0

\* can_retry() drops a request on the very edge of the window and keeps a
\* newer one
C35_Witness ==
    /\ bev.op = "can_retry"
    /\ \E i \in DOMAIN bev.requests :
           bev.requests[i] = bev.at - bcfg.window_seconds
    /\ _requests # <<>>
    /\ Len(_requests) < Len(bev.requests)

(***************************************************************************)
(* C36: after any sequence of record_latency calls on an AdaptiveTimeout,  *)
(* the sample list holds at most sampleWindowSize samples and they are     *)
(* exactly the most recent ones in arrival order (oldest evicted first),   *)
(* for every configured sampleWindowSize >= 0.                             *)
(***************************************************************************)
\* the n most recent elements of s, all of s when it holds fewer
MostRecent(s, n) ==
    LET k == Min(n, Len(s)) IN [i \in 1..k |-> s[Len(s) - k + i]]

C36_MostRecentSamples ==
    [][aev'.op \in {"record_latency", "returned"} =>
          \E x \in Latencies :
              _latencies' =
                  MostRecent(Append(_latencies, x), acfg.window_size)]_vars

(***************************************************************************)
(* C33: the synchronous path (call) and the asynchronous path (call_async) *)
(* implement the same state machine: for every sequence of call times and  *)
(* operation outcomes (success, counted failure, excluded failure),        *)
(* driving a breaker through one path yields the same admitted/rejected    *)
(* decisions, the same error kind delivered to the caller, and the same    *)
(* state and failure count as driving an identically configured breaker    *)
(* through the other path.                                                 *)
(***************************************************************************)
C33_PathsAgree ==
    /\ pev.op = "drive" => pev.call = pev.call_async
    /\ via_call.state = via_call_async.state
    /\ via_call.fail_counter = via_call_async.fail_counter

(***************************************************************************)
(* C37: in InMemoryMessageBroker, a message received from a queue and then *)
(* neither completed, abandoned nor dead-lettered stays locked only for    *)
(* the queue's lock_duration: once lock_duration has elapsed it is         *)
(* returned by a later receive_from_queue; before that it is never         *)
(* returned by receive_from_queue to another receiver.  (A receive that    *)
(* asks for as many messages as the queue holds returns every message      *)
(* whose lock is not running.)                                             *)
(***************************************************************************)
C37_LockLastsLockDuration ==
    mev.op = "receive" =>
        /\ elements(mev.returned) \cap mev.locked = {}
        /\ mev.max_messages >= Len(_queue) =>
               \A m \in elements(_queue) :
                   m \in elements(mev.returned) \/ m \in mev.locked

====
